---- MODULE Spec2Model ----
(***************************************************************************)
(* react-advanced-state-hook: the useAdvancedState hook, its provider and  *)
(* its pub/sub store, as a state machine over browser tabs ("contexts").   *)
(*                                                                         *)
(* The repository holds three iterations of the hook:                      *)
(*   "js"  : src/src/index.js      (AdvancedStateStore class, one JSON     *)
(*           object per scope, the debounce timer delays the whole update) *)
(*   "p0"  : src/unnamed/part_000  (publish-only store, debounced          *)
(*           performSync publishes)                                        *)
(*   "jsx" : src/src/index.jsx     (store with state, the setter publishes *)
(*           at once, debounced performSync persists)                      *)
(* `variant` says which of them runs; it never changes in a behaviour.     *)
(***************************************************************************)
EXTENDS Integers, Sequences, FiniteSets, TLC

VARIABLES
    variant,   \* which iteration of the hook runs
    provider,  \* provider[c]: the hooks of context c render under an AdvancedStateProvider
    defaults,  \* defaults[c]: the `defaults` prop of the provider of context c, and
               \* whether the provider's own mount effect has yet to run
    loc,       \* loc[c]: the URL of context c (query parameters, path segments)
    lstore,    \* localStorage: shared by all contexts; storage key -> text
    sstore,    \* sstore[c]: sessionStorage of context c; storage key -> text
    store,     \* store[c]: the provider's store of context c; key -> value
    pubsub,    \* the subscribers of the store of context X when the store is used
               \* on its own, and the callbacks its last operation invoked
    bind,      \* bind[b]: the hook instance b (phase, options, value, storage key,
               \* the state updates React has queued for it since its last render)
    timers,    \* timers[c]: the pending setTimeout callbacks of context c, oldest first
    events,    \* events[c]: 'storage' events queued for context c
    hist       \* history of the run, read by the properties only

vars == <<variant, provider, defaults, loc, lstore, sstore, store, pubsub, bind, timers, events, hist>>

Variants == {"js", "p0", "jsx"}
Ctx == {"X", "Y"}
Bindings == {"A", "B", "C"}
CtxOf(b) == IF b = "C" THEN "Y" ELSE "X"

(***************************************************************************)
(* JavaScript values. Strings stand for themselves; undefined and null are *)
(* two reserved values.                                                    *)
(***************************************************************************)
Undef == "<undefined>"
Null == "<null>"

\* a map with no entry (an empty Map, an empty object, an empty Storage)
EmptyMap == [x \in {} |-> Undef]
MapPut(m, k, v) == [x \in (DOMAIN m) \cup {k} |-> IF x = k THEN v ELSE m[x]]
MapDel(m, k) == [x \in (DOMAIN m) \ {k} |-> m[x]]
\* Map.prototype.get / property read: undefined when there is no entry
MapGet(m, k) == IF k \in DOMAIN m THEN m[k] ELSE Undef

(***************************************************************************)
(* Strings that are taken apart or put together (storage keys, scopes,     *)
(* patterns) are sequences of pieces; '' is <<>>. NoStr is null/undefined  *)
(* where a string is expected.                                             *)
(***************************************************************************)
NoStr == <<"<none>">>
Falsy(s) == s = NoStr \/ s = <<>>
\* a || b on strings
OrElse(a, b) == IF Falsy(a) THEN b ELSE a

RECURSIVE Join(_)
\* parts.join(':')
Join(parts) ==
    IF Len(parts) = 0 THEN <<>>
    ELSE IF Len(parts) = 1 THEN parts[1]
    ELSE parts[1] \o <<":">> \o Join(Tail(parts))

\* parts.filter(Boolean)
FilterBoolean(parts) == SelectSeq(parts, LAMBDA s : ~Falsy(s))

(***************************************************************************)
(* The URL of a context. `window` is FALSE where there is no window object *)
(* at all (typeof window === 'undefined'), and so no URL and no storage.   *)
(* `full` is TRUE where the storage engines of the context raise an error  *)
(* on every setItem (quota exceeded, storage disabled).                    *)
(***************************************************************************)
LocA == [window |-> TRUE, full |-> FALSE, search |-> [n \in {"appId"} |-> <<"x1">>],
         segs |-> << <<"app">>, <<"proj42">>, <<"view">> >>]
LocB == [window |-> TRUE, full |-> FALSE, search |-> [n \in {"appId"} |-> <<"x2">>],
         segs |-> << <<"app">>, <<"proj7">> >>]
LocNone == [window |-> TRUE, full |-> FALSE, search |-> [n \in {} |-> <<>>], segs |-> << >>]
NoWindow == [window |-> FALSE, full |-> FALSE, search |-> [n \in {} |-> <<>>], segs |-> << >>]
LocFull == [LocA EXCEPT !.full = TRUE]
Locations == {LocA, LocB, LocNone, NoWindow}

\* new URLSearchParams(window.location.search).get(name)
SearchGet(l, name) == IF name \in DOMAIN l.search THEN l.search[name] ELSE NoStr

\* getUrlParam
getUrlParam(v, l, name) ==
    IF v = "js"
      THEN IF ~l.window THEN <<"default-", name>>
           ELSE OrElse(SearchGet(l, name), <<"default-", name>>)
      ELSE IF ~l.window THEN NoStr ELSE SearchGet(l, name)

\* the placeholders a pattern may hold, and the segment index each names
Placeholders == {"$1", "$2", "$3"}
PlaceholderIndex(t) == CASE t = "$1" -> 1 [] t = "$2" -> 2 [] t = "$3" -> 3

RECURSIVE ReplacePlaceholders(_, _, _)
\* pattern.replace(/\$(\d+)/g, ...): every placeholder by its segment, or by
\* `fallback` when the path has no such segment
ReplacePlaceholders(pattern, segs, fallback) ==
    IF Len(pattern) = 0 THEN <<>>
    ELSE LET t == Head(pattern)
             piece == IF t \in Placeholders
                        THEN IF PlaceholderIndex(t) <= Len(segs)
                               THEN OrElse(segs[PlaceholderIndex(t)], fallback)
                               ELSE fallback
                        ELSE <<t>>
         IN piece \o ReplacePlaceholders(Tail(pattern), segs, fallback)

HasPlaceholder(pattern) == \E i \in 1..Len(pattern) : pattern[i] \in Placeholders

\* parsePathScope
parsePathScope(v, l, pattern) ==
    IF v = "js"
      THEN IF l.window /\ HasPlaceholder(pattern)
             THEN ReplacePlaceholders(pattern, l.segs, <<"default">>)
             ELSE <<"default-path-scope">>
      ELSE IF ~l.window \/ Falsy(pattern) THEN NoStr
           ELSE LET scope == ReplacePlaceholders(pattern, l.segs, <<>>)
                IN IF scope = <<>> THEN NoStr ELSE scope

\* the text of a key, piece by piece: a key that holds ':' is cut at it
KeyText(key) == IF key = "x1:k" THEN <<"x1", ":", "k">> ELSE <<key>>

\* the provider's prefix prop (default 'advState')
Prefix == <<"advState">>

\* getScopedStorageKey: the key of the storage item the hook reads and writes
getScopedStorageKey(v, l, o) ==
    IF v = "js"
      THEN IF ~Falsy(o.scopeByUrlParam)
             THEN <<"advancedState", ":", "param", ":">> \o o.scopeByUrlParam
                    \o <<":">> \o getUrlParam(v, l, o.scopeByUrlParam[1])
             ELSE IF ~Falsy(o.scopeByUrlPath)
                    THEN <<"advancedState", ":", "path", ":">>
                           \o parsePathScope(v, l, o.scopeByUrlPath)
                    ELSE <<"advancedState", ":", "global">>
      ELSE LET scope ==
                 IF ~Falsy(o.scopeByUrlParam)
                   THEN OrElse(getUrlParam(v, l, o.scopeByUrlParam[1]), <<"default-param">>)
                   ELSE IF ~Falsy(o.scopeByUrlPath)
                          THEN OrElse(parsePathScope(v, l, o.scopeByUrlPath), <<"default-path">>)
                          ELSE NoStr
           IN Join(FilterBoolean(<<Prefix, scope, KeyText(o.key)>>))

(***************************************************************************)
(* Storage text. A storage item is a string; what the hook stores is       *)
(*   json : JSON.stringify(value) of a single value           (p0, jsx)    *)
(*   obj  : JSON.stringify of an object of properties         (js)         *)
(*   raw  : the string "undefined", what setItem makes of undefined        *)
(*   null : no string at all (getItem's null, a removal's newValue)        *)
(***************************************************************************)
TextJson(x) == [kind |-> "json", val |-> x, obj |-> EmptyMap]
TextObj(o) == [kind |-> "obj", val |-> Undef, obj |-> o]
TextRaw == [kind |-> "raw", val |-> Undef, obj |-> EmptyMap]
TextNull == [kind |-> "null", val |-> Null, obj |-> EmptyMap]

\* JSON.stringify(value) as setItem stores it
Stringify(x) == IF x = Undef THEN TextRaw ELSE TextJson(x)

\* a parser that never throws: text that is not JSON parses to undefined
Parse_NeverThrows(t) ==
    IF t.kind = "null" THEN [ok |-> TRUE, val |-> Null, obj |-> EmptyMap]
    ELSE [ok |-> TRUE, val |-> t.val, obj |-> t.obj]

\* JSON.parse(text): ok is FALSE when it throws. JSON.parse(null) is null.
Parse(t) ==
    CASE t.kind = "json" -> [ok |-> TRUE, val |-> t.val, obj |-> EmptyMap]
      [] t.kind = "null" -> [ok |-> TRUE, val |-> Null, obj |-> EmptyMap]
      [] t.kind = "obj" -> [ok |-> TRUE, val |-> Undef, obj |-> t.obj]
      [] OTHER -> [ok |-> FALSE, val |-> Undef, obj |-> EmptyMap]

(***************************************************************************)
(* The browser's storage areas. A world w holds what one handler changes:  *)
(* l (localStorage), s (sessionStorage per context), ev (queued storage    *)
(* events), st (the stores), b (the hook instances), t (the timers), and   *)
(* what no handler changes: p (the contexts with a provider), win (the     *)
(* contexts with a window object).                                         *)
(* localStorage is shared by the contexts and a change of it is queued as  *)
(* an event for every other context; sessionStorage belongs to one context *)
(* alone. A write that changes nothing raises no event.                    *)
(***************************************************************************)
\* the values of the notify option that ask for same-tab and for cross-tab sync
CC == {"cross-component", "cross-component-and-tab"}
CT == {"cross-tab", "cross-component-and-tab"}

Areas == {"local", "session"}
OtherArea(a) == IF a = "local" THEN "session" ELSE "local"

\* persist === 'local' ? localStorage : sessionStorage
AreaOf(persist) == IF persist = "local" THEN "local" ELSE "session"

AreaMap(w, c, area) == IF area = "local" THEN w.l ELSE w.s[c]

\* storage.getItem(key)
GetItem(w, c, area, key) ==
    LET m == AreaMap(w, c, area) IN IF key \in DOMAIN m THEN m[key] ELSE TextNull

\* the windows a storage event of context c is queued for: every other context
\* in which a hook listens for storage events (or has rendered and is about to).
\* An event for a window without a listener is dispatched to nobody.
Listens(w, d) ==
    \E b \in Bindings :
        /\ CtxOf(b) = d
        /\ w.b[b].phase \in {"rendered", "live"}
        /\ w.b[b].o.notify \in CT
        /\ w.b[b].o.persist # Undef
        /\ w.win[d]

Broadcast(w, c, e) ==
    [d \in Ctx |-> IF d = c \/ ~Listens(w, d) THEN w.ev[d] ELSE Append(w.ev[d], e)]

\* storage.setItem(key, text); where the engine raises an error nothing is
\* stored and no event is sent (the callers catch the error)
SetItem(w, c, area, key, text) ==
    IF w.full[c] THEN w
    ELSE IF area = "local"
      THEN [w EXCEPT !.l = MapPut(w.l, key, text),
                     !.ev = IF GetItem(w, c, area, key) = text THEN w.ev
                            ELSE Broadcast(w, c,
                                   [area |-> "local", key |-> key, new |-> text])]
      ELSE [w EXCEPT !.s = [w.s EXCEPT ![c] = MapPut(w.s[c], key, text)]]

\* storage.removeItem(key)
RemoveItem(w, c, area, key) ==
    IF area = "local"
      THEN [w EXCEPT !.l = MapDel(w.l, key),
                     !.ev = IF key \notin DOMAIN w.l THEN w.ev
                            ELSE Broadcast(w, c,
                                   [area |-> "local", key |-> key, new |-> TextNull])]
      ELSE [w EXCEPT !.s = [w.s EXCEPT ![c] = MapDel(w.s[c], key)]]

\* readFromStorage (js): the property propKey of the scope's object
readFromStorage(w, c, area, scopedKey, propKey) ==
    LET raw == GetItem(w, c, area, scopedKey)
        p == Parse(raw)
    IN IF raw.kind # "null" /\ p.ok THEN MapGet(p.obj, propKey) ELSE Undef

\* writeToStorage (js): set or delete the property propKey of the scope's object
writeToStorage(w, c, area, scopedKey, propKey, x) ==
    LET raw == GetItem(w, c, area, scopedKey)
        p == Parse(raw)
        stateObject == IF raw.kind # "null" THEN p.obj ELSE EmptyMap
        updated == IF x = Undef \/ x = Null THEN MapDel(stateObject, propKey)
                   ELSE MapPut(stateObject, propKey, x)
    IN IF raw.kind # "null" /\ ~p.ok THEN w
       ELSE SetItem(w, c, area, scopedKey, TextObj(updated))

(***************************************************************************)
(* The hook instances and the provider's store.                            *)
(***************************************************************************)
NoOptions == [key |-> "k", initial |-> Undef, persist |-> Undef, notify |-> Undef,
              debounce |-> 0, scopeByUrlParam |-> NoStr, scopeByUrlPath |-> NoStr]
\* a provider rendered without the `defaults` prop: `defaults = []`
NoDefaults == [c \in Ctx |-> [items |-> {}, effect |-> FALSE]]

FreeBinding == [phase |-> "free", o |-> NoOptions, skey |-> <<>>, val |-> Undef,
                queue |-> <<>>]

\* a storage engine whenever persist is set, window or no window
HasStorage_NoWindowCheck(w, c, o) == o.persist # Undef

\* the hook of context c has a storage engine: getStorageEngine(persist) (js),
\* `persist && typeof window !== 'undefined'` (p0, jsx)
HasStorage(w, c, o) == o.persist # Undef /\ w.win[c]

\* useContext gives the hooks of context c a store: the provider's, or without
\* a provider the default value of the context, which is null in js and a
\* store made by createStore() once for the module in p0 and jsx
HasStore(v, w, c) == v # "js" \/ w.p[c]

\* the render of hook b throws: the hook never mounts
Fault(w, b) == [w EXCEPT !.b = [w.b EXCEPT ![b] = [w.b[b] EXCEPT !.phase = "faulted"]]]

\* the callbacks store.subscribe holds: the mounted hooks of the context that
\* asked for cross-component notification (js: subscribed for their own key)
Subscribed(v, w, c, b) ==
    /\ CtxOf(b) = c
    /\ w.b[b].phase = "live"
    /\ w.b[b].o.notify \in CC
    /\ HasStore(v, w, c)

\* a store whose subscribers' callbacks never run
NotifySubscribers_Nobody(v, w, c, key, x) == w

\* the subscribers' callbacks run for (key, x): each sets its hook's value
NotifySubscribers(v, w, c, key, x) ==
    [w EXCEPT !.b = [b \in Bindings |->
        IF Subscribed(v, w, c, b) /\ w.b[b].o.key = key
          THEN [w.b[b] EXCEPT !.val = x] ELSE w.b[b]]]

\* AdvancedStateStore.set (js), store.setState (jsx), store.publish (p0)
StoreSet(v, w, c, key, x) ==
    CASE v = "js" ->
           IF MapGet(w.st[c], key) = x THEN w
           ELSE NotifySubscribers(v,
                  [w EXCEPT !.st = [w.st EXCEPT ![c] = MapPut(w.st[c], key, x)]],
                  c, key, x)
      [] v = "jsx" ->
           NotifySubscribers(v,
             [w EXCEPT !.st = [w.st EXCEPT ![c] = MapPut(w.st[c], key, x)]], c, key, x)
      [] OTHER -> NotifySubscribers(v, w, c, key, x)

\* store.initState (jsx): set only if the key has no entry
StoreInit(w, c, key, x) ==
    IF key \in DOMAIN w.st[c] THEN w
    ELSE [w EXCEPT !.st = [w.st EXCEPT ![c] = MapPut(w.st[c], key, x)]]

\* store.get / store.getState
StoreGet(w, c, key) == MapGet(w.st[c], key)

(***************************************************************************)
(* The store on its own. A store S is its entries S.st (key -> value) and  *)
(* its subscriptions S.subs, oldest first: [cb, key] says that callback cb *)
(* was given to subscribe for `key` (p0 and jsx take no key: there `key`   *)
(* is the key the callback itself looks for). S.calls lists the callbacks  *)
(* the last operation invoked, in the order of their invocation.           *)
(***************************************************************************)
NoPubSub == [subs |-> <<>>, calls |-> <<>>, op |-> [name |-> "-", key |-> "-", val |-> Undef]]

Callbacks(subs) == [i \in 1..Len(subs) |-> subs[i].cb]

\* subscribe: a Set keeps a callback it already holds where it is
subscribe(v, S, cb, key) ==
    LET held == \E i \in 1..Len(S.subs) :
                    S.subs[i].cb = cb /\ (v = "js" => S.subs[i].key = key)
    IN [S EXCEPT !.subs = IF held THEN @ ELSE Append(@, [cb |-> cb, key |-> key]),
                 !.calls = <<>>]

\* the function subscribe returned
unsubscribe(v, S, cb, key) ==
    [S EXCEPT !.subs = SelectSeq(@, LAMBDA s : ~(s.cb = cb /\ (v = "js" => s.key = key))),
              !.calls = <<>>]

\* AdvancedStateStore.set (js), setState (jsx), publish (p0)
setState(v, S, key, x) ==
    CASE v = "js" ->
           IF MapGet(S.st, key) = x THEN [S EXCEPT !.calls = <<>>]
           ELSE [S EXCEPT !.st = MapPut(@, key, x),
                          !.calls = Callbacks(SelectSeq(S.subs, LAMBDA s : s.key = key))]
      [] v = "jsx" ->
           [S EXCEPT !.st = MapPut(@, key, x), !.calls = Callbacks(S.subs)]
      [] OTHER -> [S EXCEPT !.calls = Callbacks(S.subs)]

\* initState (jsx); in js the hook primes the store with set when get gives
\* undefined; p0 keeps no entries and has no priming
initState(v, S, key, x) ==
    CASE v = "js" ->
           IF MapGet(S.st, key) = Undef THEN setState(v, S, key, x)
           ELSE [S EXCEPT !.calls = <<>>]
      [] v = "jsx" ->
           IF key \in DOMAIN S.st THEN [S EXCEPT !.calls = <<>>]
           ELSE [S EXCEPT !.st = MapPut(@, key, x), !.calls = <<>>]
      [] OTHER -> [S EXCEPT !.calls = <<>>]

(***************************************************************************)
(* The hook, iteration by iteration.                                       *)
(***************************************************************************)
World == [l |-> lstore, s |-> sstore, ev |-> events, st |-> store, b |-> bind,
          t |-> timers, p |-> provider, win |-> [c \in Ctx |-> loc[c].window],
          full |-> [c \in Ctx |-> loc[c].full]]

SetVal(w, b, x) ==
    IF w.b[b].phase \in {"rendered", "live"}
      THEN [w EXCEPT !.b = [w.b EXCEPT ![b] = [w.b[b] EXCEPT !.val = x]]]
      ELSE w

\* an initializer that takes the initial option, whatever storage and store hold
getInitialValue_InitialOnly(v, w, b, o, skey) == SetVal(w, b, o.initial)

\* the lazy initializer of useState (js) / getInitialValue (p0, jsx), run by the
\* first render of hook b with options o: the world after it, b's value set
getInitialValue(v, w, b, o, skey) ==
    LET c == CtxOf(b)
        raw == GetItem(w, c, AreaOf(o.persist), skey)
        parsed == Parse(raw)
    IN CASE v = "js" ->
              LET fromStore == o.notify \in CC /\ StoreGet(w, c, o.key) # Undef
                  stored == IF HasStorage(w, c, o)
                              THEN readFromStorage(w, c, AreaOf(o.persist), skey, o.key)
                              ELSE Undef
                  initialValue == IF fromStore THEN StoreGet(w, c, o.key)
                                  ELSE IF stored # Undef THEN stored ELSE o.initial
                  w1 == IF o.notify \in CC /\ StoreGet(w, c, o.key) = Undef
                          THEN StoreSet(v, w, c, o.key, initialValue) ELSE w
              IN IF o.notify \in CC /\ ~HasStore(v, w, c) THEN Fault(w, b)
                 ELSE SetVal(w1, b, initialValue)
         [] v = "p0" ->
              IF HasStorage(w, c, o) /\ raw.kind # "null" /\ parsed.ok
                THEN SetVal(w, b, parsed.val)
                ELSE SetVal(w, b, o.initial)
         [] OTHER ->
              IF HasStorage(w, c, o) /\ raw.kind # "null" /\ parsed.ok
                THEN SetVal(StoreInit(w, c, o.key, parsed.val), b, parsed.val)
                ELSE IF o.notify \in CC /\ StoreGet(w, c, o.key) # Undef
                       THEN SetVal(w, b, StoreGet(w, c, o.key))
                       ELSE LET w1 == IF o.initial # Undef
                                        THEN StoreInit(w, c, o.key, o.initial) ELSE w
                            IN SetVal(w1, b, StoreGet(w1, c, o.key))

\* the cross-tab signal of p0 and jsx: write the other storage area, remove at
\* once; it is not reached where the write before it raised an error
Signal(w, c, o, skey, text) ==
    IF o.notify \in CT /\ ~w.full[c]
      THEN RemoveItem(SetItem(w, c, OtherArea(AreaOf(o.persist)), skey, text),
                      c, OtherArea(AreaOf(o.persist)), skey)
      ELSE w

\* the eager-write effect of p0 and jsx (js has none)
EagerWrite(v, w, b) ==
    LET c == CtxOf(b)
        o == w.b[b].o
        skey == w.b[b].skey
        empty == GetItem(w, c, AreaOf(o.persist), skey).kind = "null"
    IN CASE v = "p0" ->
              IF HasStorage(w, c, o) /\ o.initial # Undef /\ empty
                THEN LET w1 == SetItem(w, c, AreaOf(o.persist), skey, Stringify(o.initial))
                         w2 == Signal(w1, c, o, skey, Stringify(o.initial))
                     IN IF o.notify \in CC /\ ~w.full[c]
                          THEN StoreSet(v, w2, c, o.key, o.initial)
                          ELSE w2
                ELSE w
         [] v = "jsx" ->
              IF HasStorage(w, c, o) /\ empty /\ StoreGet(w, c, o.key) # Undef
                THEN SetItem(w, c, AreaOf(o.persist), skey,
                             Stringify(StoreGet(w, c, o.key)))
                ELSE w
         [] OTHER -> w

\* a sync whose publish stands inside the try block of the storage write: an
\* error of the write skips it
performSync_PublishInTry(v, w, b, x, cur) ==
    LET c == CtxOf(b)
        o == w.b[b].o
        skey == w.b[b].skey
        thrown == HasStorage(w, c, o) /\ w.full[c]
    IN CASE v = "js" ->
              LET w1 == IF w.b[b].phase = "live" THEN SetVal(w, b, x) ELSE w
                  w2 == IF HasStorage(w, c, o)
                          THEN writeToStorage(w1, c, AreaOf(o.persist), skey, o.key, x)
                          ELSE w1
              IN IF o.notify \in CC /\ HasStore(v, w, c) /\ ~thrown
                   THEN StoreSet(v, w2, c, o.key, x) ELSE w2
         [] OTHER ->
              LET w1 == IF HasStorage(w, c, o)
                          THEN Signal(SetItem(w, c, AreaOf(o.persist), skey, Stringify(x)),
                                      c, o, skey, Stringify(x))
                          ELSE w
              IN IF v = "p0" /\ o.notify \in CC /\ cur /\ ~thrown
                   THEN StoreSet(v, w1, c, o.key, x) ELSE w1

\* update (js) / performSync (p0, jsx) of hook b with value x; `cur` says that
\* the closure that runs is the one the hook holds now (its store is the
\* provider's current store)
performSync(v, w, b, x, cur) ==
    LET c == CtxOf(b)
        o == w.b[b].o
        skey == w.b[b].skey
    IN CASE v = "js" ->
              LET w1 == IF w.b[b].phase = "live" THEN SetVal(w, b, x) ELSE w
                  w2 == IF HasStorage(w, c, o)
                          THEN writeToStorage(w1, c, AreaOf(o.persist), skey, o.key, x)
                          ELSE w1
              IN IF o.notify \in CC /\ HasStore(v, w, c)
                   THEN StoreSet(v, w2, c, o.key, x) ELSE w2
         [] OTHER ->
              LET w1 == IF HasStorage(w, c, o)
                          THEN Signal(SetItem(w, c, AreaOf(o.persist), skey, Stringify(x)),
                                      c, o, skey, Stringify(x))
                          ELSE w
              IN IF v = "p0" /\ o.notify \in CC /\ cur
                   THEN StoreSet(v, w1, c, o.key, x) ELSE w1

\* setTimeout without the clearTimeout: a throttle-less timer per call
Reschedule_NoClear(w, b, x) ==
    [w EXCEPT !.t = [w.t EXCEPT ![CtxOf(b)] =
       Append(@, [b |-> b, val |-> x, rem |-> w.b[b].o.debounce, cur |-> TRUE])]]

\* clearTimeout of the timer the hook's debounce closure holds, then setTimeout
Reschedule(w, b, x) ==
    LET c == CtxOf(b)
        kept == SelectSeq(w.t[c], LAMBDA t : ~(t.b = b /\ t.cur))
    IN [w EXCEPT !.t = [w.t EXCEPT ![c] =
          Append(kept, [b |-> b, val |-> x, rem |-> w.b[b].o.debounce, cur |-> TRUE])]]

\* setFn: the setter the hook returns, called with the value x
setFn(v, w, b, x) ==
    LET c == CtxOf(b)
        o == w.b[b].o
    IN CASE v = "js" ->
              IF o.debounce > 0 THEN Reschedule(w, b, x)
              ELSE performSync(v, w, b, x, TRUE)
         [] v = "p0" ->
              SetVal(IF o.debounce > 0 THEN Reschedule(w, b, x)
                     ELSE performSync(v, w, b, x, TRUE), b, x)
         [] OTHER ->
              LET w1 == IF o.notify \in CC THEN StoreSet(v, w, c, o.key, x) ELSE w
                  w2 == IF o.debounce > 0 THEN Reschedule(w1, b, x)
                        ELSE performSync(v, w1, b, x, TRUE)
              IN SetVal(w2, b, x)

\* the value a storage event carries for the key: js stores one object per
\* scope with a property per key, p0 and jsx store the value itself
EventValue(v, e, key) ==
    IF v = "js" THEN MapGet(Parse(e.new).obj, key) ELSE Parse(e.new).val

\* a handler that answers an event by scheduling a sync of its own
handleStorage_Echo(v, w, b, e) ==
    IF w.b[b].phase = "live" /\ w.b[b].o.notify \in CT /\ HasStorage(w, CtxOf(b), w.b[b].o)
      THEN Reschedule(SetVal(w, b, Parse(e.new).val), b, Parse(e.new).val)
      ELSE w

\* a storage listener that sets its hook's value and leaves the store alone
handleStorage_NoRepublish(v, w, b, e) ==
    LET o == w.b[b].o
        p == Parse(e.new)
    IN IF ~(w.b[b].phase = "live" /\ o.notify \in CT /\ HasStorage(w, CtxOf(b), o)) THEN w
       ELSE IF e.key = w.b[b].skey /\ p.ok
                 /\ e.area = IF v = "js" THEN AreaOf(o.persist)
                             ELSE OtherArea(AreaOf(o.persist))
              THEN SetVal(w, b, EventValue(v, e, o.key))
              ELSE w

\* a storage listener that every mounted hook with cross-tab notification
\* has, persisted or not
handleStorage_NoPersistGuard(v, w, b, e) ==
    IF w.b[b].phase = "live" /\ w.b[b].o.notify \in CT /\ e.key = w.b[b].skey
         /\ Parse(e.new).ok
      THEN SetVal(w, b, EventValue(v, e, w.b[b].o.key))
      ELSE w

\* handleStorageEvent (js) / handleStorageChange (p0, jsx) of hook b for event e
handleStorage(v, w, b, e) ==
    LET c == CtxOf(b)
        o == w.b[b].o
        p == Parse(e.new)
    IN IF ~(w.b[b].phase = "live" /\ o.notify \in CT /\ HasStorage(w, CtxOf(b), o)) THEN w
       ELSE CASE v = "js" ->
                   IF e.area = AreaOf(o.persist) /\ e.key = w.b[b].skey /\ p.ok
                     THEN LET newValue == MapGet(p.obj, o.key)
                          IN IF newValue # w.b[b].val
                               THEN SetVal(IF o.notify \in CC /\ HasStore(v, w, c)
                                             THEN StoreSet(v, w, c, o.key, newValue)
                                             ELSE w, b, newValue)
                               ELSE w
                     ELSE w
              [] OTHER ->
                   IF e.area = OtherArea(AreaOf(o.persist)) /\ e.key = w.b[b].skey /\ p.ok
                     THEN LET w1 == SetVal(w, b, p.val)
                          IN IF o.notify = "cross-component-and-tab"
                               THEN StoreSet(v, w1, c, o.key, p.val) ELSE w1
                     ELSE w

RECURSIVE DispatchTo(_, _, _, _)
\* window dispatches the storage event e to the listeners, one after the other
DispatchTo(v, w, bs, e) ==
    IF bs = {} THEN w
    ELSE LET b == CHOOSE x \in bs : TRUE
         IN DispatchTo(v, handleStorage(v, w, b, e), bs \ {b}, e)

(***************************************************************************)
(* Inputs: the options a hook is called with, the values its setter gets,  *)
(* the number of setter calls of a run.                                    *)
(***************************************************************************)
MaxSets == 3

\* the debounce option: none, or a delay of two ticks of the clock
Delays == {0, 2}

OptionSet(initials, persists, notifies, debounces, params) ==
    {[key |-> "k", initial |-> i, persist |-> p, notify |-> n, debounce |-> d,
      scopeByUrlParam |-> q, scopeByUrlPath |-> NoStr] :
        i \in initials, p \in persists, n \in notifies, d \in debounces, q \in params}

\* README "Be Consistent": the hooks that share a key use the same persist option
Consistent(o) ==
    \A b \in Bindings : bind[b].phase # "free" => bind[b].o.persist = o.persist

(***************************************************************************)
(* History, read by the properties only.                                   *)
(*   last    : the callback the last step ran, if it ran one: a setter     *)
(*             call ("Set"), a timer callback ("Fire") or the dispatch of  *)
(*             a storage event ("Deliver"), with the hook (or the context) *)
(*             it ran for and the value it carried                         *)
(*   nsets   : calls of a setter so far                                    *)
(*   since   : since[b], ticks since the last call of b's setter (capped)  *)
(*   lastSet : lastSet[b], the value of the last call of b's setter        *)
(*   writes  : writes[b], durable writes of b's syncs in b's current burst *)
(*   synced  : synced[b], b's last setter call has been synced to storage  *)
(*             and b's storage item has not changed since                  *)
(*   audience: audience[b], for a hook b with cross-tab notification: the  *)
(*             hooks with cross-tab notification of the other tabs that    *)
(*             were mounted when the sync of b's last setter call changed  *)
(*             b's storage item (none if it left the item as it was)       *)
(*   expect  : expect[b], for a hook whose setter is called with updater   *)
(*             functions: the updaters applied, in the order of the calls, *)
(*             to the value the hook had before the first call             *)
(***************************************************************************)
MaxDelay == CHOOSE d \in Delays : \A e \in Delays : e <= d
NoStep == [act |-> "-", b |-> "-", x |-> Undef]
Step(a, b, x) == [act |-> a, b |-> b, x |-> x]

\* the storage item of hook b in the storage areas l (local) and s (session)
Slot(l, s, b) ==
    LET m == IF AreaOf(bind[b].o.persist) = "local" THEN l ELSE s[CtxOf(b)]
    IN IF bind[b].skey \in DOMAIN m THEN m[bind[b].skey] ELSE TextNull

\* synced after a step in which hook `done` completed the sync of its last
\* setter call and hook `pending` got a new setter call ("-" for none)
SyncedAfter(done, pending) ==
    [b \in Bindings |->
        IF b = done THEN TRUE
        ELSE IF b = pending THEN FALSE
        ELSE hist.synced[b] /\ Slot(lstore', sstore', b) = Slot(lstore, sstore, b)]

\* audience after a step in which hook `done` completed a sync ("-": none did)
AudienceAfter(done) ==
    [b \in Bindings |->
        IF b # done THEN hist.audience[b]
        ELSE IF Slot(lstore', sstore', b) = Slot(lstore, sstore, b) THEN {}
        ELSE IF bind[b].o.notify \notin CT THEN {}
        ELSE {x \in Bindings : /\ CtxOf(x) # CtxOf(b)
                               /\ bind[x].phase = "live"
                               /\ bind[x].o.notify \in CT}]

Busy(c) == \E b \in Bindings : CtxOf(b) = c /\ bind[b].phase = "rendered"

Commit(w) ==
    /\ lstore' = w.l
    /\ sstore' = w.s
    /\ events' = w.ev
    /\ store' = w.st
    /\ bind' = w.b
    /\ timers' = w.t

Init ==
    /\ variant \in Variants
    /\ provider = [c \in Ctx |-> TRUE]
    /\ defaults = NoDefaults
    /\ pubsub = NoPubSub
    /\ loc = [c \in Ctx |-> LocA]
    /\ lstore = EmptyMap
    /\ sstore = [c \in Ctx |-> EmptyMap]
    /\ store = [c \in Ctx |-> EmptyMap]
    /\ bind = [b \in Bindings |-> FreeBinding]
    /\ timers = [c \in Ctx |-> <<>>]
    /\ events = [c \in Ctx |-> <<>>]
    /\ hist = [last |-> NoStep, nsets |-> 0,
               since |-> [b \in Bindings |-> MaxDelay],
               lastSet |-> [b \in Bindings |-> Undef],
               writes |-> [b \in Bindings |-> 0],
               synced |-> [b \in Bindings |-> FALSE],
               audience |-> [b \in Bindings |-> {}],
               expect |-> [b \in Bindings |-> Undef]]

\* the first render of hook b, called with options o
Acquire(b, o) ==
    /\ bind[b].phase = "free"
    /\ LET skey == getScopedStorageKey(variant, loc[CtxOf(b)], o)
           w0 == [World EXCEPT !.b = [bind EXCEPT ![b] =
                    [phase |-> "rendered", o |-> o, skey |-> skey, val |-> Undef,
                           queue |-> <<>>]]]
       IN Commit(getInitialValue(variant, w0, b, o, skey))
    /\ hist' = [hist EXCEPT !.last = NoStep,
                            !.synced = SyncedAfter("-", "-")]
    /\ UNCHANGED <<variant, provider, defaults, pubsub, loc>>

\* the effects of hook b after its first render: eager write, debounced sync,
\* store subscription, storage listener
Mount(b) ==
    /\ bind[b].phase = "rendered"
    /\ LET w1 == EagerWrite(variant, World, b)
       IN Commit([w1 EXCEPT !.b = [w1.b EXCEPT ![b] = [w1.b[b] EXCEPT !.phase = "live"]]])
    /\ hist' = [hist EXCEPT !.last = NoStep,
                            !.synced = SyncedAfter("-", "-")]
    /\ UNCHANGED <<variant, provider, defaults, pubsub, loc>>

\* a call of the setter of hook b with the value x
Set(b, x) ==
    /\ bind[b].phase = "live"
    /\ ~Busy(CtxOf(b))
    /\ hist.nsets < MaxSets
    /\ Commit(setFn(variant, World, b, x))
    /\ hist' = [hist EXCEPT
                  !.last = Step("Set", b, x),
                  !.nsets = @ + 1,
                  !.since = [@ EXCEPT ![b] = 0],
                  !.lastSet = [@ EXCEPT ![b] = x],
                  !.writes = [@ EXCEPT ![b] =
                      IF bind[b].o.debounce = 0 THEN 0
                      ELSE IF hist.since[b] >= bind[b].o.debounce THEN 0 ELSE @],
                  !.synced =
                      IF bind[b].o.debounce = 0 /\ HasStorage(World, CtxOf(b), bind[b].o)
                        THEN SyncedAfter(b, "-") ELSE SyncedAfter("-", b),
                  !.audience =
                      IF bind[b].o.debounce = 0 /\ HasStorage(World, CtxOf(b), bind[b].o)
                        THEN AudienceAfter(b) ELSE @]
    /\ UNCHANGED <<variant, provider, defaults, pubsub, loc>>

\* one tick of the clock: no timer is due
Tick ==
    /\ \E c \in Ctx : timers[c] # <<>>
    /\ \A c \in Ctx : \A i \in 1..Len(timers[c]) : timers[c][i].rem > 0
    /\ timers' = [c \in Ctx |->
                    [i \in 1..Len(timers[c]) |-> [timers[c][i] EXCEPT !.rem = @ - 1]]]
    /\ hist' = [hist EXCEPT
                  !.last = NoStep,
                  !.since = [b \in Bindings |->
                               IF @[b] < MaxDelay THEN @[b] + 1 ELSE @[b]]]
    /\ UNCHANGED <<variant, provider, defaults, pubsub, loc, lstore, sstore, store, bind, events>>

\* the oldest timer of context c is due: its callback runs
Fire(c) ==
    /\ ~Busy(c)
    /\ timers[c] # <<>>
    /\ Head(timers[c]).rem = 0
    /\ LET t == Head(timers[c])
           w0 == [World EXCEPT !.t = [timers EXCEPT ![c] = Tail(timers[c])]]
           latest == /\ HasStorage(World, c, bind[t.b].o)
                     /\ \A i \in 1..Len(w0.t[c]) : w0.t[c][i].b # t.b
       IN /\ Commit(performSync(variant, w0, t.b, t.val, t.cur))
          /\ hist' = [hist EXCEPT
                        !.last = Step("Fire", t.b, t.val),
                        !.writes = [@ EXCEPT ![t.b] =
                            IF HasStorage(World, c, bind[t.b].o) THEN @ + 1 ELSE @],
                        !.synced = IF latest THEN SyncedAfter(t.b, "-")
                                   ELSE SyncedAfter("-", "-"),
                        !.audience = IF latest THEN AudienceAfter(t.b) ELSE @]
    /\ UNCHANGED <<variant, provider, defaults, pubsub, loc>>

\* the oldest storage event queued for context c is dispatched to its listeners
Deliver(c) ==
    /\ ~Busy(c)
    /\ events[c] # <<>>
    /\ LET e == Head(events[c])
           w0 == [World EXCEPT !.ev = [events EXCEPT ![c] = Tail(events[c])]]
       IN Commit(DispatchTo(variant, w0, {b \in Bindings : CtxOf(b) = c}, e))
    /\ hist' = [hist EXCEPT !.last = Step("Deliver", c,
                                           EventValue(variant, Head(events[c]), "k")),
                            !.synced = SyncedAfter("-", "-")]
    /\ UNCHANGED <<variant, provider, defaults, pubsub, loc>>

\* the component of hook b unmounts: the cleanups of its effects run (the store
\* subscription and the storage listener go; no cleanup clears a timer)
Teardown(b) ==
    /\ bind[b].phase = "live"
    /\ ~Busy(CtxOf(b))
    /\ bind' = [bind EXCEPT ![b] = [@ EXCEPT !.phase = "torn"]]
    /\ hist' = [hist EXCEPT !.last = NoStep]
    /\ UNCHANGED <<variant, provider, defaults, pubsub, loc, lstore, sstore, store, timers, events>>

\* history.pushState: the URL of context c changes, nothing renders
Navigate(c, l) ==
    /\ ~Busy(c)
    /\ loc[c] # l
    /\ loc' = [loc EXCEPT ![c] = l]
    /\ hist' = [hist EXCEPT !.last = NoStep]
    /\ UNCHANGED <<variant, provider, defaults, pubsub, lstore, sstore, store, bind, timers, events>>

\* the store the provider's useMemo makes for the items of `defaults`: empty,
\* and in jsx pre-warmed by store.initState(item.key, item.initial)
PreWarm(v, items) ==
    IF v # "jsx" THEN EmptyMap
    ELSE LET warm == {i \in items : "initial" \in DOMAIN i /\ i.initial # Undef}
         IN [k \in {i.key : i \in warm} |->
               (CHOOSE i \in warm : i.key = k).initial]

RECURSIVE RerunEagerWrite(_, _, _)
RerunEagerWrite(v, w, bs) ==
    IF bs = {} THEN w
    ELSE LET b == CHOOSE x \in bs : TRUE
         IN RerunEagerWrite(v, EagerWrite(v, w, b), bs \ {b})

\* the provider of context c renders again with `defaults` omitted or given as
\* an array literal. js keeps its store in a ref. p0 and jsx memoize it on
\* [prefix, defaults], and `defaults` is a new array in every render (the
\* default `defaults = []` too): the store is made anew, the
\* hooks subscribe to it and run the effects that depend on it again; in p0
\* performSync depends on it too, so each hook gets a new debounce closure.
ProviderRerender(c) ==
    /\ provider[c]
    /\ ~Busy(c)
    /\ \E b \in Bindings : CtxOf(b) = c /\ bind[b].phase = "live"
    /\ IF variant = "js" THEN UNCHANGED <<lstore, sstore, events, store, bind, timers>>
       ELSE LET w0 == [World EXCEPT
                         !.st = [store EXCEPT ![c] = PreWarm(variant, defaults[c].items)],
                         !.t = [timers EXCEPT ![c] =
                                  IF variant = "p0"
                                    THEN [i \in 1..Len(timers[c]) |->
                                            [timers[c][i] EXCEPT !.cur = FALSE]]
                                    ELSE timers[c]]]
            IN Commit(RerunEagerWrite(variant, w0,
                        {b \in Bindings : CtxOf(b) = c /\ bind[b].phase = "live"}))
    /\ hist' = [hist EXCEPT !.last = NoStep,
                            !.synced = SyncedAfter("-", "-")]
    /\ UNCHANGED <<variant, provider, defaults, pubsub, loc>>

(***************************************************************************)
(* One tab: two hooks of the key "k" under one provider, persisted to      *)
(* localStorage, debounced or not, notifying the other hook of the tab.    *)
(***************************************************************************)
LocalOptions == OptionSet({"i"}, {"local"}, {"cross-component"}, Delays, {NoStr})

NextLocal ==
    \/ \E b \in {"A", "B"}, o \in LocalOptions : Acquire(b, o)
    \/ \E b \in Bindings : Mount(b)
    \/ \E b \in Bindings, x \in {"a", "b"} : Set(b, x)
    \/ Tick
    \/ \E c \in Ctx : Fire(c)
    \/ \E b \in Bindings : Teardown(b)
    \/ \E c \in Ctx : ProviderRerender(c)

SpecLocal == Init /\ [][NextLocal]_vars

(***************************************************************************)
(* Initial values: two hooks in tab X, with or without cross-component     *)
(* notification, and a hook in tab Y that writes the same localStorage     *)
(* item. No hook debounces, no hook listens for storage events.            *)
(***************************************************************************)
InitOptions(b) ==
    OptionSet(IF b = "B" THEN {"i", "j"} ELSE {"i"}, {"local"},
              IF b = "C" THEN {Undef} ELSE {Undef, "cross-component"}, {0}, {NoStr})

NextInit ==
    \/ \E b \in Bindings : \E o \in InitOptions(b) : Acquire(b, o)
    \/ \E b \in Bindings : Mount(b)
    \/ \E b \in Bindings, x \in {"a", Null} : Set(b, x)
    \/ \E c \in Ctx : ProviderRerender(c)

SpecInit == Init /\ [][NextInit]_vars

(***************************************************************************)
(* Two tabs: in tab X a hook that notifies components and tabs and a hook  *)
(* that notifies components, in tab Y a hook that notifies tabs; all       *)
(* persist to the same storage engine.                                     *)
(***************************************************************************)
TabsOptions(b) ==
    OptionSet({"i"}, {"local", "session"},
              CASE b = "A" -> {"cross-component-and-tab"}
                [] b = "B" -> {"cross-component"}
                [] OTHER -> {"cross-tab"}, {0}, {NoStr})

NextTabs ==
    \/ \E b \in Bindings : \E o \in TabsOptions(b) : Consistent(o) /\ Acquire(b, o)
    \/ \E b \in Bindings : Mount(b)
    \/ \E b \in Bindings, x \in {"a", "b"} : Set(b, x)
    \/ \E c \in Ctx : Deliver(c)
    \/ \E c \in Ctx : ProviderRerender(c)

SpecTabs == Init /\ [][NextTabs]_vars

(***************************************************************************)
(* Scopes: two hooks in tab X scoped by the URL parameter appId, while the *)
(* tab navigates between ?appId=x1 and ?appId=x2. A hook that resolved its *)
(* scope under x1 sets the value "a" only, one under x2 the value "b".     *)
(***************************************************************************)
ScopeOptions ==
    OptionSet({"i"}, {"local"}, {Undef, "cross-component"}, {0}, {<<"appId">>})

\* the value the setter of hook b is called with
ScopeValue(b) ==
    IF bind[b].skey = getScopedStorageKey(variant, LocA, bind[b].o) THEN "a" ELSE "b"

NextScope ==
    \/ \E b \in {"A", "B"}, o \in ScopeOptions : Acquire(b, o)
    \/ \E b \in Bindings : Mount(b)
    \/ \E b \in Bindings : Set(b, ScopeValue(b))
    \/ \E l \in {LocA, LocB} : Navigate("X", l)
    \/ \E b \in Bindings : Teardown(b)

SpecScope == Init /\ [][NextScope]_vars

(***************************************************************************)
(* Properties of the setter, the debounce and the teardown (one tab).      *)
(***************************************************************************)

\* the timers of hook b that have not fired yet
PendingTimers(b) ==
    {i \in 1..Len(timers[CtxOf(b)]) : timers[CtxOf(b)][i].b = b}

\* C1: when a call set(x) returns, the visible value of the hook is x,
\* whatever the debounce delay of the hook.
C1_SetIsImmediate ==
    hist.last.act = "Set" => bind[hist.last.b].val = hist.last.x

\* C2: for a persisted hook with a debounce delay d > 0, a burst of setter
\* calls less than d apart gives exactly one durable write: no sync writes
\* before d has passed since the last call, the write carries the value of the
\* last call, and once the burst is over there has been one write, not more.
C2_OneWritePerBurst ==
    \A b \in Bindings :
        (bind[b].phase # "free" /\ bind[b].o.persist # Undef /\ bind[b].o.debounce > 0) =>
            /\ hist.writes[b] <= 1
            /\ (hist.last.act = "Fire" /\ hist.last.b = b) =>
                   /\ hist.since[b] >= bind[b].o.debounce
                   /\ hist.last.x = hist.lastSet[b]
            /\ (hist.lastSet[b] # Undef /\ hist.since[b] >= bind[b].o.debounce
                  /\ PendingTimers(b) = {}) => hist.writes[b] = 1

\* C6: after the teardown of a hook no sync of the hook runs: a timer that was
\* pending at the teardown never fires.
C6_NoSyncAfterTeardown ==
    ~(hist.last.act = "Fire" /\ bind[hist.last.b].phase = "torn")

\* C7: a setter call of a hook with a debounce delay d > 0 has no side effect
\* of its own: the storage, the storage events, the provider store and the
\* other hooks of the tab are as they were; the side effects come when the
\* debounce fires.
C7_NoSideEffectBeforeFire ==
    [][(hist'.last.act = "Set" /\ hist'.nsets > hist.nsets
          /\ bind[hist'.last.b].o.debounce > 0) =>
            /\ lstore' = lstore
            /\ sstore' = sstore
            /\ events' = events
            /\ store' = store
            /\ \A b \in Bindings \ {hist'.last.b} : bind'[b] = bind[b]]_vars

(***************************************************************************)
(* Properties of the initial value.                                        *)
(***************************************************************************)

\* the step is the first render of hook b
Acquired(b) == bind[b].phase = "free" /\ bind'[b].phase = "rendered"

\* the durable record of the key under the storage key skey, as a hook of
\* context c with options o finds it; Undef when there is none
RecordOf(c, o, skey) ==
    LET raw == GetItem(World, c, AreaOf(o.persist), skey)
    IN IF o.persist = Undef THEN Undef
       ELSE IF variant = "js"
              THEN readFromStorage(World, c, AreaOf(o.persist), skey, o.key)
              ELSE IF raw.kind # "null" /\ Parse(raw).ok THEN Parse(raw).val ELSE Undef

\* the store holds a value for the key of a hook that asks for same-tab sharing
StoreHolds(c, o) == o.notify \in CC /\ StoreGet(World, c, o.key) # Undef

\* C3: the initial value of a hook is the store's value if notify includes
\* same-tab sharing and the store holds one, else the durable record if persist
\* is set and a record exists, else the initial option.
C3_InitPriority ==
    [][\A b \in Bindings : Acquired(b) =>
         LET c == CtxOf(b)
             o == bind'[b].o
             rec == RecordOf(c, o, bind'[b].skey)
         IN bind'[b].val = IF StoreHolds(c, o) THEN StoreGet(World, c, o.key)
                           ELSE IF rec # Undef THEN rec ELSE o.initial]_vars

\* C4 as stated: with persist set and a durable record for the storage key, the
\* initial value of a new hook is the record, whatever its initial option.
C4_RecordBeatsInitial ==
    [][\A b \in Bindings : Acquired(b) =>
         LET rec == RecordOf(CtxOf(b), bind'[b].o, bind'[b].skey)
         IN rec # Undef => bind'[b].val = rec]_vars

\* C4 amended: with persist set and a durable record for the storage key, the
\* initial value of a new hook is the record, whatever its initial option,
\* unless its notify includes same-tab sharing and the store already holds a
\* value for the key.
C4_RecordBeatsInitialUnlessStore ==
    [][\A b \in Bindings : Acquired(b) =>
         LET rec == RecordOf(CtxOf(b), bind'[b].o, bind'[b].skey)
         IN (rec # Undef /\ ~StoreHolds(CtxOf(b), bind'[b].o)) => bind'[b].val = rec]_vars

\* a hook has just rendered with the record "a" in storage, an initial option
\* that differs from it and no same-tab sharing: its value is the record
C4_Witness ==
    /\ bind["B"].phase = "rendered"
    /\ bind["B"].o.notify = Undef
    /\ bind["B"].o.initial = "j"
    /\ RecordOf("X", bind["B"].o, bind["B"].skey) = "a"
    /\ bind["B"].val = "a"

\* hooks a and b use the same storage item
SameItem(a, oa, ka, b, ob, kb) ==
    /\ oa.persist # Undef
    /\ oa.persist = ob.persist
    /\ oa.key = ob.key
    /\ ka = kb
    /\ (AreaOf(oa.persist) = "local" \/ CtxOf(a) = CtxOf(b))

\* C5: once the setter call set(v) of hook a has been synced and nothing else
\* has written the storage item since, a hook b acquired with the same key,
\* scope and persist engine starts with the value v, whatever its initial
\* option.
C5_SyncedValueIsInitial ==
    [][\A a, b \in Bindings :
         (a # b /\ Acquired(b) /\ bind[a].phase # "free" /\ hist.synced[a]
            /\ SameItem(a, bind[a].o, bind[a].skey, b, bind'[b].o, bind'[b].skey))
         => bind'[b].val = hist.lastSet[a]]_vars

(***************************************************************************)
(* Properties of the synchronisation between tabs.                         *)
(***************************************************************************)

\* C8: hook a, persisted to localStorage with cross-tab notification, has
\* synced its setter call set(v) and nothing else has written the storage item
\* since. Once the storage events of another tab have been delivered, every
\* hook of that tab that was mounted when the sync changed the item and still
\* is, with the same
\* engine and storage key and with cross-tab notification, and that has made no
\* setter call of its own, has the value v.
C8_CrossTabDelivery ==
    \A a, b \in Bindings :
        (/\ CtxOf(a) # CtxOf(b)
         /\ bind[a].phase = "live" /\ bind[a].o.notify \in CT /\ hist.synced[a]
         /\ b \in hist.audience[a]
         /\ bind[b].phase = "live" /\ bind[b].o.notify \in CT
         /\ bind[a].o.persist = "local" /\ bind[a].o.persist = bind[b].o.persist
         /\ bind[a].skey = bind[b].skey
         /\ hist.lastSet[b] = Undef
         /\ events[CtxOf(b)] = <<>>)
        => bind[b].val = hist.lastSet[a]

\* the listener of hook b handles the storage event e: it is mounted with
\* cross-tab notification and a persist engine, and e is a change of the item
\* it watches that parses
Receives(b, e) ==
    /\ bind[b].phase = "live"
    /\ bind[b].o.notify \in CT
    /\ bind[b].o.persist # Undef
    /\ e.key = bind[b].skey
    /\ e.area = IF variant = "js" THEN AreaOf(bind[b].o.persist)
                ELSE OtherArea(AreaOf(bind[b].o.persist))
    /\ Parse(e.new).ok

\* C9: when a mounted hook with notify 'cross-component-and-tab' receives a
\* storage event carrying the value v for its key, the store's entry of the key
\* becomes v (where the store keeps entries) and every mounted hook of the tab
\* with the same key and same-tab notification ends with the value v.
C9_HybridRepublishes ==
    [][\A h \in Bindings :
         LET c == CtxOf(h)
             e == Head(events[c])
             v == EventValue(variant, e, bind[h].o.key)
         IN (/\ events[c] # <<>>
             /\ events'[c] = Tail(events[c])
             /\ hist'.last.act = "Deliver"
             /\ bind[h].o.notify = "cross-component-and-tab"
             /\ Receives(h, e))
            => /\ variant # "p0" => MapGet(store'[c], bind[h].o.key) = v
               /\ \A b \in Bindings :
                    (/\ CtxOf(b) = c
                     /\ bind[b].phase = "live"
                     /\ bind[b].o.notify \in CC
                     /\ bind[b].o.key = bind[h].o.key)
                    => bind'[b].val = v]_vars

\* a storage event has just been delivered in tab X, where neither hook has
\* called its setter: the hybrid hook A and the cross-component hook B, which
\* has no storage listener, both have the value "a" that was set in tab Y
C9_Witness ==
    /\ hist.last = Step("Deliver", "X", "a")
    /\ hist.lastSet["A"] = Undef /\ hist.lastSet["B"] = Undef
    /\ hist.lastSet["C"] = "a"
    /\ bind["A"].phase = "live" /\ bind["A"].o.notify = "cross-component-and-tab"
    /\ bind["B"].phase = "live" /\ bind["B"].o.notify = "cross-component"
    /\ bind["A"].val = "a"
    /\ bind["B"].val = "a"

(***************************************************************************)
(* Properties of the scopes.                                               *)
(***************************************************************************)

\* C10: hooks of one key whose resolved scopes differ never observe each
\* other's values, through the storage or through the store: with the setters
\* of the hooks of a scope called with a value of that scope only, the value
\* of a hook is its initial option or the value of its scope, and so is the
\* durable record under its storage key.
C10_ScopesIsolated ==
    \A b \in Bindings :
        bind[b].phase # "free" =>
            /\ bind[b].val \in {bind[b].o.initial, ScopeValue(b)}
            /\ RecordOf(CtxOf(b), bind[b].o, bind[b].skey)
                   \in {Undef, bind[b].o.initial, ScopeValue(b)}

(***************************************************************************)
(* The durable write path and the durable read path, taken alone: a value  *)
(* is written under a scoped key of a storage engine of tab X and read     *)
(* back. JSON values other than strings are named by their JSON text.      *)
(***************************************************************************)
JsonValues == {Null, "false", "0", "", "[]", "{}"}

\* the durable write of the value x for the key o.key under the storage key
\* skey: writeToStorage (js), JSON.stringify and setItem of performSync (p0, jsx)
DurableWrite(v, w, c, o, skey, x) ==
    IF v = "js" THEN writeToStorage(w, c, AreaOf(o.persist), skey, o.key, x)
    ELSE SetItem(w, c, AreaOf(o.persist), skey, Stringify(x))

\* the durable read of the key o.key under the storage key skey:
\* readFromStorage (js), getItem and JSON.parse of getInitialValue (p0, jsx);
\* Undef when the read finds nothing
DurableRead(v, w, c, o, skey) ==
    LET raw == GetItem(w, c, AreaOf(o.persist), skey)
    IN IF v = "js" THEN readFromStorage(w, c, AreaOf(o.persist), skey, o.key)
       ELSE IF raw.kind # "null" /\ Parse(raw).ok THEN Parse(raw).val ELSE Undef

JsonOptions == OptionSet({Undef}, {"local", "session"}, {Undef}, {0}, {<<"appId">>})

\* the step of the write path or of the read path that ran, with its slot
SlotStep(a, o, skey, x) ==
    [act |-> a, b |-> "X", x |-> x, persist |-> o.persist, skey |-> skey]

\* the value x is written through the durable write path
Write(o, x) ==
    LET skey == getScopedStorageKey(variant, loc["X"], o)
    IN /\ Commit(DurableWrite(variant, World, "X", o, skey, x))
       /\ hist' = [hist EXCEPT !.last = SlotStep("Write", o, skey, x)]
       /\ UNCHANGED <<variant, provider, defaults, pubsub, loc>>

\* the slot is read through the durable read path
Read(o) ==
    LET skey == getScopedStorageKey(variant, loc["X"], o)
    IN /\ hist' = [hist EXCEPT !.last =
                     SlotStep("Read", o, skey, DurableRead(variant, World, "X", o, skey))]
       /\ UNCHANGED <<variant, provider, defaults, pubsub, loc, lstore, sstore, store, bind, timers, events>>

NextJson ==
    \/ \E o \in JsonOptions, x \in JsonValues : Write(o, x)
    \/ \E o \in JsonOptions : Read(o)

SpecJson == Init /\ [][NextJson]_vars

\* C11: a JSON value written to a scoped key through the durable write path
\* and read back from that key through the durable read path comes back equal
\* to what was written, and not absent; null, false, 0 and '' included.
C11_WriteReadRoundTrip ==
    [][(/\ hist.last.act = "Write"
        /\ hist'.last.act = "Read"
        /\ hist'.last.persist = hist.last.persist
        /\ hist'.last.skey = hist.last.skey)
       => hist'.last.x = hist.last.x]_vars

(***************************************************************************)
(* No provider: two hooks of the key "k" in tab X, rendered with no        *)
(* AdvancedStateProvider above them, persisted or not, with or without     *)
(* cross-component notification.                                           *)
(***************************************************************************)
InitBare ==
    /\ variant \in Variants
    /\ provider = [c \in Ctx |-> FALSE]
    /\ defaults = NoDefaults
    /\ pubsub = NoPubSub
    /\ loc = [c \in Ctx |-> LocA]
    /\ lstore = EmptyMap
    /\ sstore = [c \in Ctx |-> EmptyMap]
    /\ store = [c \in Ctx |-> EmptyMap]
    /\ bind = [b \in Bindings |-> FreeBinding]
    /\ timers = [c \in Ctx |-> <<>>]
    /\ events = [c \in Ctx |-> <<>>]
    /\ hist = [last |-> NoStep, nsets |-> 0,
               since |-> [b \in Bindings |-> MaxDelay],
               lastSet |-> [b \in Bindings |-> Undef],
               writes |-> [b \in Bindings |-> 0],
               synced |-> [b \in Bindings |-> FALSE],
               audience |-> [b \in Bindings |-> {}],
               expect |-> [b \in Bindings |-> Undef]]

BareOptions ==
    OptionSet({"i"}, {Undef, "local"}, {Undef, "cross-component"}, {0}, {NoStr})

NextBare ==
    \/ \E b \in {"A", "B"}, o \in BareOptions : Acquire(b, o)
    \/ \E b \in Bindings : Mount(b)
    \/ \E b \in Bindings, x \in {"a", "b"} : Set(b, x)
    \/ \E b \in Bindings : Teardown(b)

SpecBare == InitBare /\ [][NextBare]_vars

\* the step is the first render of hook b, whether it returns or throws
Rendered(b) == bind[b].phase = "free" /\ bind'[b].phase # "free"

\* C12: with no provider, the first render of a hook with cross-component
\* notification raises no fault and gives the durable record, or the initial
\* option if there is none; a later setter call set(x) gives the hook the
\* value x and, if persist is set, the durable record x.
C12_NoProviderIsLocalState ==
    [][\A b \in Bindings :
         LET c == CtxOf(b)
         IN /\ (Rendered(b) /\ ~provider[c] /\ bind'[b].o.notify \in CC) =>
                 LET rec == RecordOf(c, bind'[b].o, bind'[b].skey)
                 IN /\ bind'[b].phase = "rendered"
                    /\ bind'[b].val = IF rec # Undef THEN rec ELSE bind'[b].o.initial
            /\ (hist'.last = Step("Set", b, hist'.last.x) /\ hist'.nsets > hist.nsets
                  /\ ~provider[c] /\ bind[b].o.notify \in CC) =>
                 /\ bind'[b].val = hist'.last.x
                 /\ bind[b].o.persist # Undef =>
                      DurableRead(variant, [World EXCEPT !.l = lstore', !.s = sstore'],
                                  c, bind[b].o, bind[b].skey) = hist'.last.x]_vars

\* C13: with no provider, a setter call of a hook with cross-component
\* notification leaves the value of every other hook as it was, and a hook
\* that is acquired later without persistence starts with its initial option.
C13_NoProviderNoFanOut ==
    [][\A b \in Bindings :
         ~provider[CtxOf(b)] =>
            /\ (hist'.last.act = "Set" /\ hist'.nsets > hist.nsets /\ hist'.last.b # b
                  /\ bind[hist'.last.b].o.notify \in CC)
                 => bind'[b].val = bind[b].val
            /\ (Rendered(b) /\ bind'[b].phase = "rendered" /\ bind'[b].o.persist = Undef)
                 => bind'[b].val = bind'[b].o.initial]_vars

(***************************************************************************)
(* No window: two hooks of the key "k" under one provider in a context     *)
(* without a window object (and so without localStorage, sessionStorage    *)
(* and URL), asking for persistence, scoped by a URL parameter, debounced  *)
(* or not, notifying the components (and the tabs).                        *)
(***************************************************************************)
InitNoWindow ==
    /\ variant \in Variants
    /\ provider = [c \in Ctx |-> TRUE]
    /\ defaults = NoDefaults
    /\ pubsub = NoPubSub
    /\ loc = [c \in Ctx |-> NoWindow]
    /\ lstore = EmptyMap
    /\ sstore = [c \in Ctx |-> EmptyMap]
    /\ store = [c \in Ctx |-> EmptyMap]
    /\ bind = [b \in Bindings |-> FreeBinding]
    /\ timers = [c \in Ctx |-> <<>>]
    /\ events = [c \in Ctx |-> <<>>]
    /\ hist = [last |-> NoStep, nsets |-> 0,
               since |-> [b \in Bindings |-> MaxDelay],
               lastSet |-> [b \in Bindings |-> Undef],
               writes |-> [b \in Bindings |-> 0],
               synced |-> [b \in Bindings |-> FALSE],
               audience |-> [b \in Bindings |-> {}],
               expect |-> [b \in Bindings |-> Undef]]

NoWindowOptions(b) ==
    OptionSet(IF b = "B" THEN {"j"} ELSE {"i"}, {"local"},
              {"cross-component", "cross-component-and-tab"}, Delays, {<<"appId">>})

NextNoWindow ==
    \/ \E b \in {"A", "B"} : \E o \in NoWindowOptions(b) : Acquire(b, o)
    \/ \E b \in Bindings : Mount(b)
    \/ \E b \in Bindings, x \in {"a", "b"} : Set(b, x)
    \/ Tick
    \/ \E c \in Ctx : Fire(c)
    \/ \E b \in Bindings : Teardown(b)

SpecNoWindow == InitNoWindow /\ [][NextNoWindow]_vars

\* C14 (in every state): where there is no window, no hook has faulted and the
\* storage areas and the storage event queues are as they were at the start
C14_NoFaultNoStorage ==
    (\A c \in Ctx : ~loc[c].window) =>
        /\ \A b \in Bindings : bind[b].phase # "faulted"
        /\ lstore = EmptyMap
        /\ \A c \in Ctx : sstore[c] = EmptyMap /\ events[c] = <<>>

\* C14: where there is no window, no operation of a hook (first render, mount,
\* setter call, debounce fire, teardown) raises a fault or touches a storage
\* area; the initial value of a hook is the store's entry for its key, or its
\* initial option when the store has none; and a setter call set(x) of an
\* undebounced hook with same-tab sharing gives x to every mounted hook of the
\* tab with the same key and same-tab sharing.
C14_NoWindowDegrades ==
    [][/\ C14_NoFaultNoStorage'
       /\ \A b \in Bindings :
            LET c == CtxOf(b)
            IN /\ (Rendered(b) /\ ~loc[c].window) =>
                    bind'[b].val = IF StoreGet(World, c, bind'[b].o.key) # Undef
                                     THEN StoreGet(World, c, bind'[b].o.key)
                                     ELSE bind'[b].o.initial
               /\ (hist'.last = Step("Set", b, hist'.last.x) /\ hist'.nsets > hist.nsets
                     /\ ~loc[c].window /\ bind[b].o.debounce = 0 /\ bind[b].o.notify \in CC)
                    => \A d \in Bindings :
                         (CtxOf(d) = c /\ bind[d].phase = "live" /\ bind[d].o.notify \in CC
                            /\ bind[d].o.key = bind[b].o.key)
                         => bind'[d].val = hist'.last.x]_vars

\* without a window, the undebounced hook A, which asks for localStorage, has
\* just been set to "a": the mounted hook B has the value too and localStorage
\* is empty
C14_Witness ==
    /\ ~loc["X"].window
    /\ hist.last = Step("Set", "A", "a")
    /\ bind["A"].o.persist = "local" /\ bind["A"].o.debounce = 0
    /\ bind["A"].val = "a"
    /\ bind["B"].phase = "live" /\ bind["B"].val = "a"
    /\ lstore = EmptyMap

(***************************************************************************)
(* Malformed records: two hooks of the key "k" in tab X, persisted, with   *)
(* or without cross-component notification, while another script of the    *)
(* page overwrites their storage item with text that is not JSON.          *)
(***************************************************************************)
MalformedOptions(b) ==
    OptionSet(IF b = "B" THEN {"j"} ELSE {"i"}, {"local", "session"},
              {Undef, "cross-component"}, {0}, {NoStr})

\* a script of tab X stores text that is not JSON under the storage key of a
\* hook with options o
Corrupt(o) ==
    LET skey == getScopedStorageKey(variant, loc["X"], o)
    IN /\ ~Busy("X")
       /\ GetItem(World, "X", AreaOf(o.persist), skey) # TextRaw
       /\ Commit(SetItem(World, "X", AreaOf(o.persist), skey, TextRaw))
       /\ hist' = [hist EXCEPT !.last = NoStep, !.synced = SyncedAfter("-", "-")]
       /\ UNCHANGED <<variant, provider, defaults, pubsub, loc>>

NextMalformed ==
    \/ \E b \in {"A", "B"} : \E o \in MalformedOptions(b) : Acquire(b, o)
    \/ \E b \in Bindings : Mount(b)
    \/ \E b \in Bindings, x \in {"a", "b"} : Set(b, x)
    \/ \E o \in MalformedOptions("A") : Corrupt(o)

SpecMalformed == Init /\ [][NextMalformed]_vars

\* the storage item of a hook of context c with options o holds text that is
\* not JSON
Malformed(c, o, skey) ==
    /\ o.persist # Undef
    /\ GetItem(World, c, AreaOf(o.persist), skey) = TextRaw

\* the value the first render of hook b with options o would give it if no
\* storage area held an item under skey
ValueIfNoRecord(b, o, skey) ==
    LET w0 == [World EXCEPT
                 !.l = MapDel(lstore, skey),
                 !.s = [c \in Ctx |-> MapDel(sstore[c], skey)],
                 !.b = [bind EXCEPT ![b] =
                          [phase |-> "rendered", o |-> o, skey |-> skey, val |-> Undef,
                           queue |-> <<>>]]]
    IN getInitialValue(variant, w0, b, o, skey).b[b].val

\* C15: when the storage item of a hook holds text that is not valid JSON at
\* the hook's first render, the render raises no fault and the initial value
\* is the one the hook would have got with no durable record at all: the
\* store's entry for the key or the initial option.
C15_MalformedIsAbsent ==
    [][\A b \in Bindings :
         (Rendered(b) /\ Malformed(CtxOf(b), bind'[b].o, bind'[b].skey)) =>
            /\ bind'[b].phase = "rendered"
            /\ bind'[b].val = ValueIfNoRecord(b, bind'[b].o, bind'[b].skey)
            /\ bind'[b].val \in {StoreGet(World, CtxOf(b), bind'[b].o.key),
                                 bind'[b].o.initial}]_vars

\* hook A has stored "a", the item has been overwritten with malformed text,
\* and hook B, without cross-component notification, has just rendered: it
\* has its initial option "j"
C15_Witness ==
    /\ hist.lastSet["A"] = "a"
    /\ bind["B"].phase = "rendered"
    /\ bind["B"].o.notify = Undef
    /\ Malformed("X", bind["B"].o, bind["B"].skey)
    /\ bind["B"].val = "j"

(***************************************************************************)
(* Cross-tab notification without persistence: hook A of tab X asks for    *)
(* cross-tab notification and has no persist option; hook B of tab X and   *)
(* hook C of tab Y persist the same key to localStorage and notify the     *)
(* tabs. The setters of A and of C are called.                             *)
(***************************************************************************)
NoPersistOptions(b) ==
    IF b = "A"
      THEN OptionSet({"i"}, {Undef}, CT, Delays, {NoStr})
      ELSE OptionSet({"i"}, {"local"}, {"cross-tab"}, {0}, {NoStr})

NextNoPersist ==
    \/ \E b \in Bindings : \E o \in NoPersistOptions(b) : Acquire(b, o)
    \/ \E b \in Bindings : Mount(b)
    \/ \E x \in {"a", "b"} : Set("A", x)
    \/ Set("C", "a")
    \/ Tick
    \/ \E c \in Ctx : Fire(c)
    \/ \E c \in Ctx : Deliver(c)

SpecNoPersist == Init /\ [][NextNoPersist]_vars

\* the step is a call of the setter of hook b
SetterCalled(b) ==
    hist'.last.act = "Set" /\ hist'.last.b = b /\ hist'.nsets > hist.nsets

\* the step is the callback of a timer of hook b
TimerFired(b) ==
    /\ hist'.last.act = "Fire" /\ hist'.last.b = b
    /\ Len(timers'[CtxOf(b)]) < Len(timers[CtxOf(b)])

\* the step is the dispatch of a storage event in context c
Delivered(c) ==
    /\ hist'.last.act = "Deliver" /\ hist'.last.b = c
    /\ events[c] # <<>> /\ events'[c] = Tail(events[c])

\* C16: for a hook with cross-tab notification and no persist option, no
\* setter call and no debounce fire of the hook changes a storage area or
\* raises a storage event, and no storage event dispatched in its tab changes
\* its value.
C16_CrossTabNeedsPersist ==
    [][\A b \in Bindings :
         (bind[b].phase # "free" /\ bind[b].o.notify \in CT /\ bind[b].o.persist = Undef) =>
            /\ (SetterCalled(b) \/ TimerFired(b)) =>
                 /\ lstore' = lstore
                 /\ sstore' = sstore
                 /\ events' = events
            /\ Delivered(CtxOf(b)) => bind'[b].val = bind[b].val]_vars

\* a storage event carrying "a" has just been dispatched in tab X: the
\* persisted hook B has taken the value, the unpersisted hook A, mounted with
\* cross-tab notification, still has its initial value
C16_Witness ==
    /\ hist.last = Step("Deliver", "X", "a")
    /\ bind["A"].phase = "live" /\ bind["A"].o.notify \in CT
    /\ bind["A"].o.persist = Undef
    /\ bind["A"].val = "i"
    /\ bind["B"].phase = "live" /\ bind["B"].val = "a"

(***************************************************************************)
(* The store on its own: three callbacks subscribe to and unsubscribe from *)
(* the store of context X for the keys "k" and "m", while the entries are  *)
(* set and primed.                                                         *)
(***************************************************************************)
StoreCallbacks == {"f", "g", "h"}
StoreKeys == {"k", "m"}

\* the store of context X
TheStore == [st |-> store["X"], subs |-> pubsub.subs, calls |-> pubsub.calls]

\* the operation `name` with the key and the value leaves the store as S
StoreStep(S, name, key, x) ==
    /\ store' = [store EXCEPT !["X"] = S.st]
    /\ pubsub' = [subs |-> S.subs, calls |-> S.calls,
                  op |-> [name |-> name, key |-> key, val |-> x]]
    /\ UNCHANGED <<variant, provider, defaults, loc, lstore, sstore, bind, timers, events, hist>>

\* a callback that is not subscribed is subscribed for a key
Subscribe(cb, key) ==
    /\ \A i \in 1..Len(pubsub.subs) : pubsub.subs[i].cb # cb
    /\ StoreStep(subscribe(variant, TheStore, cb, key), "subscribe", key, cb)

Unsubscribe(cb, key) ==
    /\ \E i \in 1..Len(pubsub.subs) : pubsub.subs[i] = [cb |-> cb, key |-> key]
    /\ StoreStep(unsubscribe(variant, TheStore, cb, key), "unsubscribe", key, cb)

SetState(key, x) ==
    LET S == setState(variant, TheStore, key, x)
    IN StoreStep(S, "set", key, x)

InitState(key, x) ==
    /\ variant # "p0"
    /\ StoreStep(initState(variant, TheStore, key, x), "init", key, x)

NextStore ==
    \/ \E cb \in StoreCallbacks, key \in StoreKeys : Subscribe(cb, key)
    \/ \E cb \in StoreCallbacks, key \in StoreKeys : Unsubscribe(cb, key)
    \/ \E key \in StoreKeys, x \in {"a", "b"} : SetState(key, x)
    \/ \E key \in StoreKeys, x \in {"a", "b"} : InitState(key, x)

SpecStore == Init /\ [][NextStore]_vars

\* the step is the store operation `name`
StoreOp(name) == pubsub' # pubsub /\ pubsub'.op.name = name

\* C17: a set(k, v) that changes the entry of k invokes the callbacks that
\* are subscribed for k at the call, each once, in the order of their
\* subscription, and no other callback.
C17_SetNotifiesKeyInOrder ==
    [][(StoreOp("set")
          /\ MapGet(store'["X"], pubsub'.op.key) # MapGet(store["X"], pubsub'.op.key))
       => pubsub'.calls =
            Callbacks(SelectSeq(pubsub.subs, LAMBDA s : s.key = pubsub'.op.key))]_vars

\* C18: a set(k, v) when the entry of k is v already changes no entry and
\* invokes no callback.
C18_SetSameValueIsNoOp ==
    [][(StoreOp("set") /\ MapGet(store["X"], pubsub'.op.key) = pubsub'.op.val)
       => /\ store' = store
          /\ pubsub'.subs = pubsub.subs
          /\ pubsub'.calls = <<>>]_vars

\* C19: priming the entry of k with v sets it to v if k has no entry and
\* leaves it as it is otherwise; either way no callback is invoked and the
\* entry of no other key changes.
C19_InitStateOnlyIfAbsent ==
    [][StoreOp("init") =>
         LET k == pubsub'.op.key
         IN /\ MapGet(store'["X"], k) =
                 IF k \in DOMAIN store["X"] THEN store["X"][k] ELSE pubsub'.op.val
            /\ \A j \in StoreKeys \ {k} : MapGet(store'["X"], j) = MapGet(store["X"], j)
            /\ pubsub'.calls = <<>>]_vars

(***************************************************************************)
(* Setter calls inside an event handler. React renders a component again   *)
(* after the handler has returned; until then it queues the updates of the *)
(* component's state. setState(updater) runs the updater at once only when *)
(* the component has no update queued, otherwise when it renders again.    *)
(* js passes plain values to setValue and does the sync in the setter; p0  *)
(* and jsx do the sync inside the updater they pass to setLocalValue.      *)
(* Hooks A and B in tab X and C in tab Y, undebounced, persisted to        *)
(* localStorage.                                                           *)
(***************************************************************************)
BatchOptions(b) ==
    OptionSet({"i"}, {"local"},
              CASE b = "A" -> {"cross-component-and-tab"}
                [] b = "B" -> {"cross-component"}
                [] OTHER -> {"cross-tab"}, {0}, {NoStr})

\* a call of the setter of hook b with the value x, inside an event handler
Call(b, x) ==
    /\ bind[b].phase = "live"
    /\ ~Busy(CtxOf(b))
    /\ hist.nsets < MaxSets
    /\ LET eager == variant = "js" \/ bind[b].queue = <<>>
           w1 == IF eager THEN setFn(variant, World, b, x) ELSE World
       IN Commit([w1 EXCEPT !.b = [w1.b EXCEPT ![b] =
                    [w1.b[b] EXCEPT !.queue = Append(@, [x |-> x, ran |-> eager])]]])
    /\ hist' = [hist EXCEPT !.last = Step("Set", b, x),
                            !.nsets = @ + 1,
                            !.lastSet = [@ EXCEPT ![b] = x]]
    /\ UNCHANGED <<variant, provider, defaults, pubsub, loc>>

RECURSIVE RunUpdaters(_, _, _, _)
\* React works through the queued updates of hook b, oldest first: an updater
\* that has not run yet runs now
RunUpdaters(v, w, b, q) ==
    IF q = <<>> THEN w
    ELSE RunUpdaters(v, IF Head(q).ran THEN w ELSE setFn(v, w, b, Head(q).x), b, Tail(q))

\* the handler has returned: React renders the component of hook b again
Render(b) ==
    /\ bind[b].phase = "live"
    /\ bind[b].queue # <<>>
    /\ LET w1 == RunUpdaters(variant, World, b, bind[b].queue)
       IN Commit([w1 EXCEPT !.b = [w1.b EXCEPT ![b] = [w1.b[b] EXCEPT !.queue = <<>>]]])
    /\ hist' = [hist EXCEPT !.last = NoStep]
    /\ UNCHANGED <<variant, provider, defaults, pubsub, loc>>

NextBatch ==
    \/ \E b \in Bindings : \E o \in BatchOptions(b) : Acquire(b, o)
    \/ \E b \in Bindings : Mount(b)
    \/ \E b \in Bindings, x \in {"a", "b"} : Call(b, x)
    \/ \E b \in Bindings : Render(b)

SpecBatch == Init /\ [][NextBatch]_vars

\* C20: when a call set(x) of a hook without debounce returns, the sync of
\* that call has run with x: the storage areas and the storage events are as
\* the hook's sync of x leaves them, the durable record is x, the store's
\* entry (where the store keeps entries) and the other mounted hooks of the
\* tab with same-tab sharing have x, and no timer has been set.
C20_ZeroDebounceSyncsAtOnce ==
    [][\A b \in Bindings :
         (SetterCalled(b) /\ bind[b].o.debounce = 0) =>
            LET c == CtxOf(b)
                o == bind[b].o
                w == performSync(variant, World, b, hist'.last.x, TRUE)
            IN /\ timers' = timers
               /\ lstore' = w.l /\ sstore' = w.s /\ events' = w.ev
               /\ HasStorage(World, c, o) =>
                    DurableRead(variant, [World EXCEPT !.l = lstore', !.s = sstore'],
                                c, o, bind[b].skey) = hist'.last.x
               /\ o.notify \in CC =>
                    /\ variant # "p0" => MapGet(store'[c], o.key) = hist'.last.x
                    /\ \A d \in Bindings \ {b} :
                         (Subscribed(variant, World, c, d) /\ bind[d].o.key = o.key)
                         => bind'[d].val = hist'.last.x]_vars

(***************************************************************************)
(* Debounce timers while the hook's surroundings change: two debounced     *)
(* hooks of the key "k" in tab X, whose provider renders again and whose   *)
(* components render again with another debounce option.                   *)
(***************************************************************************)
TimerOptions == OptionSet({"i"}, {"local"}, {"cross-component"}, {2}, {NoStr})

\* the component of hook b renders again with the debounce option d. js keeps
\* the timer id in a ref that every setter closure shares. In p0 and jsx the
\* effect on [performSync, debounceDelay] makes a new debounce closure with a
\* timer id of its own: the timers of the old closure stay, out of its reach.
Reconfigure(b, d) ==
    /\ bind[b].phase = "live"
    /\ ~Busy(CtxOf(b))
    /\ bind[b].o.debounce # d
    /\ bind' = [bind EXCEPT ![b] = [@ EXCEPT !.o = [@ EXCEPT !.debounce = d]]]
    /\ timers' = [timers EXCEPT ![CtxOf(b)] =
                    IF variant = "js" THEN @
                    ELSE [i \in 1..Len(@) |->
                            IF @[i].b = b THEN [@[i] EXCEPT !.cur = FALSE] ELSE @[i]]]
    /\ hist' = [hist EXCEPT !.last = NoStep]
    /\ UNCHANGED <<variant, provider, defaults, pubsub, loc, lstore, sstore, store, events>>

NextTimers ==
    \/ \E b \in {"A", "B"}, o \in TimerOptions : Acquire(b, o)
    \/ \E b \in Bindings : Mount(b)
    \/ \E b \in Bindings, x \in {"a", "b"} : Set(b, x)
    \/ Tick
    \/ \E c \in Ctx : Fire(c)
    \/ \E c \in Ctx : ProviderRerender(c)
    \/ \E b \in Bindings, d \in Delays : Reconfigure(b, d)

SpecTimers == Init /\ [][NextTimers]_vars

\* C21: a mounted hook has at most one timer pending, and the timer holds the
\* value of the hook's last setter call; also after the provider's store or
\* the hook's options have changed while the timer was pending.
C21_OneTimerLatestValue ==
    \A b \in Bindings :
        bind[b].phase = "live" =>
            /\ Cardinality(PendingTimers(b)) <= 1
            /\ \A i \in PendingTimers(b) : timers[CtxOf(b)][i].val = hist.lastSet[b]

(***************************************************************************)
(* Updater functions: one hook of the key "k", persisted, debounced or     *)
(* not, whose setter is called with functions of the previous value.       *)
(***************************************************************************)
UpdaterOptions == OptionSet({"i"}, {"local"}, {Undef}, Delays, {NoStr})

\* the functions the setter is called with: v => next(v) walks i, a, b, c;
\* () => 'i' goes back to the start
Updaters == {"next", "reset"}
Apply(f, x) ==
    IF f = "reset" THEN "i"
    ELSE CASE x = "i" -> "a" [] x = "a" -> "b" [] OTHER -> "c"

\* the value the setter of hook b resolves the updater f to: js applies it to
\* the value of the render that made the setter, p0 and jsx to the previous
\* value that setLocalValue hands to its updater
Resolve(v, w, b, f) == Apply(f, w.b[b].val)

\* a call of the setter of hook b with the updater function f
SetWith(b, f) ==
    /\ bind[b].phase = "live"
    /\ ~Busy(CtxOf(b))
    /\ hist.nsets < MaxSets
    /\ LET x == Resolve(variant, World, b, f)
       IN /\ Commit(setFn(variant, World, b, x))
          /\ hist' = [hist EXCEPT
                        !.last = Step("Set", b, x),
                        !.nsets = @ + 1,
                        !.lastSet = [@ EXCEPT ![b] = x],
                        !.expect = [@ EXCEPT ![b] =
                            Apply(f, IF @ = Undef THEN bind[b].val ELSE @)]]
    /\ UNCHANGED <<variant, provider, defaults, pubsub, loc>>

NextUpdater ==
    \/ \E o \in UpdaterOptions : Acquire("A", o)
    \/ Mount("A")
    \/ \E f \in Updaters : SetWith("A", f)
    \/ Tick
    \/ \E c \in Ctx : Fire(c)

SpecUpdater == Init /\ [][NextUpdater]_vars

\* C22: after the calls set(f1), ..., set(fn) of a hook that had the value v0,
\* and once no sync of the hook is pending any more, the value of the hook
\* and its durable record are both fn(...f1(v0)...), whatever the debounce
\* delay.
C22_UpdatersCompose ==
    \A b \in Bindings :
        (bind[b].phase = "live" /\ hist.expect[b] # Undef /\ PendingTimers(b) = {}) =>
            /\ bind[b].val = hist.expect[b]
            /\ RecordOf(CtxOf(b), bind[b].o, bind[b].skey) = hist.expect[b]

(***************************************************************************)
(* Provider defaults: the provider of a tab is given `defaults` with one   *)
(* item for the key "k"; the hooks are called with some of the options, or *)
(* with none. An options object is a record of the fields it has.          *)
(***************************************************************************)
NoFields == [f \in {} |-> Undef]

\* defaultsMap.get(key) || {} (p0, jsx); js takes no `defaults`
DefaultsFor(v, items, key) ==
    IF v # "js" /\ \E i \in items : i.key = key
      THEN CHOOSE i \in items : i.key = key
      ELSE NoFields

\* { ...defaultOptions, ...options }
mergedOptions(v, items, key, site) ==
    LET item == DefaultsFor(v, items, key)
    IN [f \in (DOMAIN item) \cup (DOMAIN site) |->
          IF f \in DOMAIN site THEN site[f] ELSE item[f]]

\* const { initial, persist, notify, debounce = 0, scopeByUrlParam, scopeByUrlPath } = m
Destructure(key, m) ==
    [key |-> key,
     initial |-> IF "initial" \in DOMAIN m THEN m.initial ELSE Undef,
     persist |-> IF "persist" \in DOMAIN m THEN m.persist ELSE Undef,
     notify |-> IF "notify" \in DOMAIN m THEN m.notify ELSE Undef,
     debounce |-> IF "debounce" \in DOMAIN m THEN m.debounce ELSE 0,
     scopeByUrlParam |-> IF "scopeByUrlParam" \in DOMAIN m THEN m.scopeByUrlParam ELSE NoStr,
     scopeByUrlPath |-> IF "scopeByUrlPath" \in DOMAIN m THEN m.scopeByUrlPath ELSE NoStr]

\* the mount effect of the provider of context c (p0, jsx): each persistent item
\* of `defaults` whose storage item is missing is written, in p0 with the item's
\* initial, in jsx with what the store holds for the key
RECURSIVE ProviderEffect(_, _, _, _)
ProviderEffect(v, w, c, items) ==
    IF items = {} \/ v = "js" \/ ~w.win[c] THEN w
    ELSE LET item == CHOOSE i \in items : TRUE
             o == Destructure(item.key, item)
             skey == getScopedStorageKey(v, loc[c], o)
             empty == GetItem(w, c, AreaOf(o.persist), skey).kind = "null"
             x == IF v = "p0" THEN o.initial ELSE StoreGet(w, c, o.key)
             w1 == IF o.persist # Undef /\ x # Undef /\ empty
                     THEN SetItem(w, c, AreaOf(o.persist), skey, Stringify(x))
                     ELSE w
         IN ProviderEffect(v, w1, c, items \ {item})

DefaultItems ==
    {[key |-> "k", initial |-> "d", persist |-> "local", notify |-> "cross-component"],
     [key |-> "k", initial |-> "d", debounce |-> 2],
     [key |-> "k", persist |-> "session"]}

CallSites ==
    {NoFields, [initial |-> "j"], [notify |-> "cross-component"],
     [initial |-> "j", persist |-> "session"], [debounce |-> 0],
     [notify |-> "cross-tab"]}

\* the provider of each tab has rendered with a `defaults` of one item
InitDefaults ==
    /\ variant \in Variants
    /\ provider = [c \in Ctx |-> TRUE]
    /\ \E item \in DefaultItems :
          defaults = [c \in Ctx |-> [items |-> {item}, effect |-> TRUE]]
    /\ pubsub = NoPubSub
    /\ loc = [c \in Ctx |-> LocA]
    /\ lstore = EmptyMap
    /\ sstore = [c \in Ctx |-> EmptyMap]
    /\ store = [c \in Ctx |-> PreWarm(variant, defaults[c].items)]
    /\ bind = [b \in Bindings |-> FreeBinding]
    /\ timers = [c \in Ctx |-> <<>>]
    /\ events = [c \in Ctx |-> <<>>]
    /\ hist = [last |-> NoStep, nsets |-> 0,
               since |-> [b \in Bindings |-> MaxDelay],
               lastSet |-> [b \in Bindings |-> Undef],
               writes |-> [b \in Bindings |-> 0],
               synced |-> [b \in Bindings |-> FALSE],
               audience |-> [b \in Bindings |-> {}],
               expect |-> [b \in Bindings |-> Undef]]

\* the first render of hook b, called as useAdvancedState("k", site)
AcquireUnder(b, site) ==
    Acquire(b, Destructure("k", mergedOptions(variant, defaults[CtxOf(b)].items, "k", site)))

\* the mount effect of the provider of context c, after the effects of the
\* hooks that rendered with it
ProviderMount(c) ==
    /\ defaults[c].effect
    /\ ~Busy(c)
    /\ Commit(ProviderEffect(variant, World, c, defaults[c].items))
    /\ defaults' = [defaults EXCEPT ![c] = [@ EXCEPT !.effect = FALSE]]
    /\ hist' = [hist EXCEPT !.last = NoStep,
                            !.synced = SyncedAfter("-", "-")]
    /\ UNCHANGED <<variant, provider, pubsub, loc>>

NextDefaults ==
    \/ \E b \in {"A", "B"}, site \in CallSites : AcquireUnder(b, site)
    \/ \E b \in Bindings : Mount(b)
    \/ \E c \in Ctx : ProviderMount(c)
    \/ \E b \in Bindings : Set(b, "a")
    \/ Tick
    \/ \E c \in Ctx : Fire(c)

SpecDefaults == InitDefaults /\ [][NextDefaults]_vars

\* what the claim expects of the option `f` of a hook called with `site` under
\* a provider whose item for the key is `item`
Effective(item, site, f, none) ==
    IF f \in DOMAIN site THEN site[f]
    ELSE IF f \in DOMAIN item THEN item[f] ELSE none

\* C23: a hook acquired under a provider with a defaults item for its key has,
\* field by field, the call site's option when the call site gives it and the
\* item's otherwise; and when its storage item is missing (or it has none) and
\* no other hook of the key has rendered, a call-site initial wins over the
\* item's initial as the hook's first value.
C23_CallSiteWins ==
    [][\A b \in Bindings, site \in CallSites :
         AcquireUnder(b, site) =>
           LET item == CHOOSE i \in defaults[CtxOf(b)].items : i.key = "k"
               o == bind'[b].o
           IN /\ o.initial = Effective(item, site, "initial", Undef)
              /\ o.persist = Effective(item, site, "persist", Undef)
              /\ o.notify = Effective(item, site, "notify", Undef)
              /\ o.debounce = Effective(item, site, "debounce", 0)
              /\ ( /\ "initial" \in DOMAIN site
                   /\ "initial" \in DOMAIN item
                   /\ \A x \in Bindings : bind[x].phase = "free"
                   /\ RecordOf(CtxOf(b), o, bind'[b].skey) = Undef )
                 => bind'[b].val = site.initial]_vars

\* C24: when the mount effects of a hook with persist and a defined initial run
\* while the storage item of its scoped key is missing (it was missing when the
\* hook was acquired, and nothing has written it since), the item then holds the
\* JSON text of the hook's effective initial.
C24_EagerWriteOnMount ==
    [][\A b \in Bindings :
         ( /\ Mount(b)
           /\ bind[b].o.persist # Undef
           /\ bind[b].o.initial # Undef
           /\ Slot(lstore, sstore, b) = TextNull )
         => Slot(lstore', sstore', b) = Stringify(bind[b].o.initial)]_vars

\* C25: a re-render of the provider leaves its store as it is: every entry set
\* earlier reads as before, and whatever a hook has pending still refers to the
\* store the provider hands out.
C25_StoreSurvivesRerender ==
    [][\A c \in Ctx :
         ProviderRerender(c) =>
           /\ \A k \in DOMAIN store[c] : MapGet(store'[c], k) = store[c][k]
           /\ \A i \in 1..Len(timers[c]) : timers[c][i].cur => timers'[c][i].cur]_vars

\* C26: a hook whose notify option is unset is plain local state. No step of
\* its own (first render, mount, setter call, timer) changes the provider's
\* store; with persist unset too its first value is its own initial option,
\* whatever the store holds for the key; and once it is mounted its value
\* changes only in a step of its own.
C26_NoNotifyIsLocal ==
    [][\A b \in Bindings :
         LET o == bind'[b].o
             own == \/ bind[b].phase # bind'[b].phase
                    \/ hist'.last.b = b
         IN (bind'[b].phase # "free" /\ o.notify = Undef) =>
              /\ own => store' = store
              /\ (bind[b].phase = "free" /\ o.persist = Undef) => bind'[b].val = o.initial
              /\ (bind[b].phase = "live" /\ o.persist = Undef /\ bind'[b].val # bind[b].val)
                   => hist'.last.b = b]_vars

\* C27: a step in which a hook completes the sync of a value v (a setter call
\* without debounce, or its debounce timer firing, with a storage engine) leaves
\* the storage item of the hook's scoped key in its own engine holding exactly
\* the JSON text of v, and changes no other item of localStorage or of any
\* sessionStorage, the item of the same key in the other engine included.
C27_SyncWritesOneSlot ==
    [][\A b \in Bindings :
         LET o == bind[b].o
             skey == bind[b].skey
             same(m, n, keep) ==
                 \A k \in (DOMAIN m) \cup (DOMAIN n) :
                     \/ k \in keep
                     \/ k \in DOMAIN m /\ k \in DOMAIN n /\ m[k] = n[k]
         IN ( /\ hist'.last.b = b
              /\ \/ hist'.last.act = "Fire"
                 \/ hist'.last.act = "Set" /\ o.debounce = 0
              /\ HasStorage(World, CtxOf(b), o) )
            => /\ Slot(lstore', sstore', b) = Stringify(hist'.last.x)
               /\ same(lstore, lstore', IF o.persist = "local" THEN {skey} ELSE {})
               /\ \A c \in Ctx :
                    same(sstore[c], sstore'[c],
                         IF o.persist = "session" /\ c = CtxOf(b) THEN {skey} ELSE {})]_vars

(***************************************************************************)
(* Scoped keys: one hook, called with a query-parameter scope, a path      *)
(* pattern, both or neither, at each of the URLs the tab navigates to.     *)
(***************************************************************************)
ParamNames == {NoStr, <<"appId">>, <<"tab">>}
PathPatterns == {NoStr, <<"doc_", "$2">>, <<"$1", "_", "$3">>, <<"docs">>}

KeyOptions ==
    {[NoOptions EXCEPT !.initial = "i", !.scopeByUrlParam = q, !.scopeByUrlPath = p] :
        q \in ParamNames, p \in PathPatterns}

NextKeys ==
    \/ \E o \in KeyOptions : Acquire("A", o)
    \/ Mount("A")
    \/ \E l \in {LocA, LocB, LocNone} : Navigate("X", l)
    \/ Teardown("A")

SpecKeys == Init /\ [][NextKeys]_vars

\* the first render of hook b, with options o, in a tab that has a URL
Keyed(b, o) == Acquire(b, o) /\ loc[CtxOf(b)].window

\* the string `part` occurs in the string `whole`
Contains(whole, part) ==
    \E i \in 0..(Len(whole) - Len(part)) : SubSeq(whole, i + 1, i + Len(part)) = part

\* C28: the scoped key is prefix ':' scope ':' key, and prefix ':' key for a
\* hook with no scope option: with the query-parameter scope 'appId' at
\* ?appId=x1 it is 'advState:x1:k', with the pattern 'doc_$2' at
\* /app/proj42/view it is 'advState:doc_proj42:k'.
C28_ScopedKeyFormat ==
    [][\A o \in KeyOptions :
         Keyed("A", o) =>
           LET skey == bind'["A"].skey
               l == loc["X"]
           IN /\ (o.scopeByUrlParam = NoStr /\ o.scopeByUrlPath = NoStr)
                   => skey = <<"advState", ":", "k">>
              /\ (o.scopeByUrlParam = <<"appId">> /\ "appId" \in DOMAIN l.search)
                   => skey = <<"advState", ":">> \o l.search["appId"] \o <<":", "k">>
              /\ (o.scopeByUrlParam = NoStr /\ o.scopeByUrlPath = <<"doc_", "$2">>
                    /\ Len(l.segs) >= 2)
                   => skey = <<"advState", ":", "doc_">> \o l.segs[2] \o <<":", "k">>]_vars

\* C29: the scope of a path pattern with placeholders is the pattern with each
\* $n replaced by the n-th segment of the path, or by 'default' when the path
\* has no n-th segment, every other character kept; the scoped key holds it.
C29_PathScope ==
    [][\A o \in KeyOptions :
         ( /\ Keyed("A", o)
           /\ o.scopeByUrlParam = NoStr
           /\ HasPlaceholder(o.scopeByUrlPath) )
         => LET p == o.scopeByUrlPath
                segs == loc["X"].segs
                piece(i) == IF i > Len(p) THEN <<>>
                            ELSE IF p[i] \notin Placeholders THEN <<p[i]>>
                            ELSE IF PlaceholderIndex(p[i]) <= Len(segs)
                                   THEN segs[PlaceholderIndex(p[i])]
                                   ELSE <<"default">>
                scope == piece(1) \o piece(2) \o piece(3)
            IN /\ parsePathScope(variant, loc["X"], p) = scope
               /\ Contains(bind'["A"].skey, <<":">> \o scope)]_vars

\* C30: the scope of a query-parameter scope `name` is the parameter's value
\* when the URL has it and 'default-' + name when it has not; it is never
\* empty, and the scoped key has three segments.
C30_ParamScope ==
    [][\A o \in KeyOptions :
         (Keyed("A", o) /\ o.scopeByUrlParam # NoStr)
         => LET name == o.scopeByUrlParam[1]
                l == loc["X"]
                skey == bind'["A"].skey
                scope == IF name \in DOMAIN l.search THEN l.search[name]
                         ELSE <<"default-", name>>
            IN /\ Contains(skey, <<":">> \o scope)
               /\ Cardinality({i \in 1..Len(skey) : skey[i] = ":"}) = 2]_vars

\* C31: the first render of a hook with cross-component notify leaves the
\* provider's store with an entry for the hook's key, the entry it had or else
\* the value the hook starts with; and a hook of the key with cross-component
\* notify that renders right after another one (before its effects run) starts
\* with that entry.
C31_InitPrimesStore ==
    [][\A b \in Bindings :
         (Acquired(b) /\ bind'[b].o.notify \in CC) =>
           LET c == CtxOf(b)
               key == bind'[b].o.key
               before == StoreGet(World, c, key)
           IN /\ MapGet(store'[c], key) = IF before # Undef THEN before ELSE bind'[b].val
              /\ (\E a \in Bindings : /\ a # b
                                      /\ CtxOf(a) = c
                                      /\ bind[a].phase = "rendered"
                                      /\ bind[a].o.notify \in CC
                                      /\ bind[a].o.key = key)
                   => bind'[b].val = before]_vars

(***************************************************************************)
(* Sharing in one tab: hook A of the key "k" and hook B of the key "k" or  *)
(* of the key "m", under one provider, all with cross-component notify and *)
(* persisted to localStorage, debounced or not.                            *)
(***************************************************************************)
ShareOptions(b) ==
    {[o EXCEPT !.key = k] :
        o \in OptionSet({"i"}, {"local"}, {"cross-component"}, Delays, {NoStr}),
        k \in IF b = "B" THEN {"k", "m"} ELSE {"k"}}

NextShare ==
    \/ \E b \in {"A", "B"} : \E o \in ShareOptions(b) : Acquire(b, o)
    \/ \E b \in Bindings : Mount(b)
    \/ \E b \in Bindings, x \in {"a", "b"} : Set(b, x)
    \/ Tick
    \/ \E c \in Ctx : Fire(c)

SpecShare == Init /\ [][NextShare]_vars

\* C32: in a step in which a setter call or a timer sets the store's entry of
\* a key to a new value, every mounted hook of that key with cross-component
\* notify whose value differs from it has the new value when the step ends; a
\* step of another hook that leaves the entry of a hook's key as it is leaves
\* the hook's value as it is.
C32_StoreChangeReachesHooks ==
    [][\A b \in Bindings :
         LET c == CtxOf(b)
             key == bind[b].o.key
             old == MapGet(store[c], key)
             new == MapGet(store'[c], key)
         IN ( /\ bind[b].phase = "live"
              /\ bind'[b].phase = "live"
              /\ bind[b].o.notify \in CC
              /\ hist'.last # NoStep )
            => /\ (new # old /\ new # bind[b].val) => bind'[b].val = new
               /\ (new = old /\ store' # store /\ hist'.last.b # b)
                    => bind'[b].val = bind[b].val]_vars

C32_Witness ==
    /\ hist.last.b = "A"
    /\ hist.last.x = "b"
    /\ bind["B"].phase = "live"
    /\ bind["B"].o.key = "k"
    /\ MapGet(store["X"], "k") = "b"
    /\ bind["B"].val = "b"

(***************************************************************************)
(* One persisted hook, the only writer of its storage item, debounced or   *)
(* not. The browser runs a timer that is due: the clock and the timers are *)
(* weakly fair; nothing obliges the component to call the setter.          *)
(***************************************************************************)
LiveOptions == OptionSet({"i"}, {"local"}, {Undef}, Delays, {NoStr})

NextLive ==
    \/ \E o \in LiveOptions : Acquire("A", o)
    \/ Mount("A")
    \/ \E x \in {"a", "b"} : Set("A", x)
    \/ Tick
    \/ Fire("X")

SpecLive ==
    /\ Init
    /\ [][NextLive]_vars
    /\ WF_vars(Tick)
    /\ WF_vars(Fire("X"))

C34_SameProcessAgreement ==
    \A a \in Bindings, b \in Bindings :
        ( /\ CtxOf(a) = CtxOf(b)
          /\ bind[a].phase = "live"
          /\ bind[b].phase = "live"
          /\ bind[a].o = bind[b].o
          /\ bind[a].o.notify \in CC
          /\ timers[CtxOf(a)] = <<>> )
        => /\ bind[a].val = bind[b].val
           /\ bind[a].val = StoreGet(World, CtxOf(a), bind[a].o.key)

\* C35: whenever no timer is pending and no storage event is waiting in any
\* tab, each mounted hook that persists to localStorage with cross-tab notify
\* shows the value of the record of its storage item (once there is one).
C35_CrossTabConvergence ==
    \A b \in Bindings :
        ( /\ bind[b].phase = "live"
          /\ bind[b].o.persist = "local"
          /\ bind[b].o.notify \in CT
          /\ \A c \in Ctx : timers[c] = <<>> /\ events[c] = <<>>
          /\ ~\E x \in Bindings : bind[x].phase = "rendered"
          /\ RecordOf(CtxOf(b), bind[b].o, bind[b].skey) # Undef )
        => bind[b].val = RecordOf(CtxOf(b), bind[b].o, bind[b].skey)

(***************************************************************************)
(* Two tabs that answer each other: hook A (tab X, notifying its tab and   *)
(* the other tabs, debounced), hook B (tab X, notified by A) and hook C    *)
(* (tab Y, notifying the other tabs), all persisted to localStorage. A and *)
(* C call their setter once each.                                          *)
(* The browser runs due timers and delivers queued storage events, and     *)
(* React runs the effects of a component it has rendered.                  *)
(***************************************************************************)
EchoOptions(b) ==
    CASE b = "A" -> OptionSet({"i"}, {"local"}, {"cross-component-and-tab"}, {2}, {NoStr})
      [] b = "B" -> OptionSet({"i"}, {"local"}, {"cross-component"}, {0}, {NoStr})
      [] OTHER -> OptionSet({"i"}, {"local"}, {"cross-tab"}, {0}, {NoStr})

\* the first call of the setter of hook b
SetOnce(b, x) == hist.lastSet[b] = Undef /\ Set(b, x)

NextEcho ==
    \/ \E b \in Bindings : \E o \in EchoOptions(b) : Acquire(b, o)
    \/ \E b \in Bindings : Mount(b)
    \/ \E b \in {"A", "C"}, x \in {"a", "b"} : SetOnce(b, x)
    \/ Tick
    \/ \E c \in Ctx : Fire(c)
    \/ \E c \in Ctx : Deliver(c)

\* what the event loop does on its own: the effects of a rendered component,
\* the clock, a due timer, a queued storage event
Scheduled ==
    \/ \E b \in Bindings : Mount(b)
    \/ Tick
    \/ \E c \in Ctx : Fire(c)
    \/ \E c \in Ctx : Deliver(c)

SpecEcho == Init /\ [][NextEcho]_vars /\ WF_vars(Scheduled)

\* C36: the delivery of a storage event writes no storage item, queues no
\* storage event and starts no timer; a setter call or a timer of one hook
\* starts no timer for another hook, whatever notifications it sends; and so
\* every run ends with no timer pending and no event waiting.
C36_NoEcho ==
    /\ [][\A c \in Ctx :
            /\ Deliver(c) => /\ lstore' = lstore
                             /\ sstore' = sstore
                             /\ timers' = timers
                             /\ events' = [events EXCEPT ![c] = Tail(events[c])]
            /\ \A b \in Bindings :
                 (hist'.last.act \in {"Set", "Fire"} /\ hist'.last.b # b)
                   => Cardinality({i \in 1..Len(timers'[CtxOf(b)]) : timers'[CtxOf(b)][i].b = b})
                        <= Cardinality(PendingTimers(b))]_vars
    /\ <>[](\A c \in Ctx : timers[c] = <<>> /\ events[c] = <<>>)

C36_Witness ==
    /\ hist.last.act = "Deliver"
    /\ hist.last.b = "Y"
    /\ hist.last.x = "b"
    /\ bind["C"].phase = "live"
    /\ bind["C"].val = "b"
    /\ \A c \in Ctx : timers[c] = <<>> /\ events[c] = <<>>

\* C37: when a persisted hook completes the sync of a value v while its
\* storage item holds text that is no JSON, the hook does not fail and the item
\* then holds a record from which v is read back.
C37_WriteOverMalformed ==
    [][\A b \in Bindings :
         ( /\ hist'.last.b = b
           /\ \/ hist'.last.act = "Fire"
              \/ hist'.last.act = "Set" /\ bind[b].o.debounce = 0
           /\ HasStorage(World, CtxOf(b), bind[b].o)
           /\ Slot(lstore, sstore, b) = TextRaw )
         => /\ bind'[b].phase = "live"
            /\ RecordOf(CtxOf(b), bind[b].o, bind[b].skey)' = hist'.last.x]_vars

\* C38: the mount effects of a hook and the mount effect of the provider write
\* a storage item only where there is none: every item that exists before such
\* a step exists unchanged after it, in localStorage and in every sessionStorage.
C38_EagerWriteOnlyIfEmpty ==
    [][((\E b \in Bindings : Mount(b)) \/ (\E c \in Ctx : ProviderMount(c)))
         => /\ \A k \in DOMAIN lstore : k \in DOMAIN lstore' /\ lstore'[k] = lstore[k]
            /\ \A c \in Ctx : \A k \in DOMAIN sstore[c] :
                 k \in DOMAIN sstore'[c] /\ sstore'[c][k] = sstore[c][k]]_vars

(***************************************************************************)
(* Full storage: two hooks of the key "k" in tab X, whose storage engines  *)
(* raise an error on every write.                                          *)
(***************************************************************************)
QuotaOptions ==
    OptionSet({"i"}, {"local"}, {Undef, "cross-component", "cross-component-and-tab"},
              Delays, {NoStr})

InitQuota ==
    /\ variant \in Variants
    /\ provider = [c \in Ctx |-> TRUE]
    /\ defaults = NoDefaults
    /\ pubsub = NoPubSub
    /\ loc = [c \in Ctx |-> LocFull]
    /\ lstore = EmptyMap
    /\ sstore = [c \in Ctx |-> EmptyMap]
    /\ store = [c \in Ctx |-> EmptyMap]
    /\ bind = [b \in Bindings |-> FreeBinding]
    /\ timers = [c \in Ctx |-> <<>>]
    /\ events = [c \in Ctx |-> <<>>]
    /\ hist = [last |-> NoStep, nsets |-> 0,
               since |-> [b \in Bindings |-> MaxDelay],
               lastSet |-> [b \in Bindings |-> Undef],
               writes |-> [b \in Bindings |-> 0],
               synced |-> [b \in Bindings |-> FALSE],
               audience |-> [b \in Bindings |-> {}],
               expect |-> [b \in Bindings |-> Undef]]

NextQuota ==
    \/ \E b \in {"A", "B"}, o \in QuotaOptions : Acquire(b, o)
    \/ \E b \in Bindings : Mount(b)
    \/ \E b \in Bindings, x \in {"a", "b"} : Set(b, x)
    \/ Tick
    \/ Fire("X")

SpecQuota == InitQuota /\ [][NextQuota]_vars

\* the step runs the sync of hook b with the value x: a setter call of an
\* undebounced hook, or the callback of the hook's timer
SyncStep(b, x) ==
    /\ hist'.last.b = b /\ hist'.last.x = x
    /\ \/ hist'.last.act = "Fire"
       \/ hist'.last.act = "Set" /\ bind[b].o.debounce = 0

\* the step on which hook b shows the value x it was set to: the setter call
\* (p0, jsx), the sync (js, which sets the value inside the debounced update)
ShowStep(b, x) ==
    IF variant = "js" THEN SyncStep(b, x)
    ELSE hist'.last = Step("Set", b, x)

\* the step on which hook b publishes x to the store: the setter call (jsx),
\* the sync (js, p0)
PublishStep(b, x) ==
    IF variant = "jsx" THEN hist'.last = Step("Set", b, x)
    ELSE SyncStep(b, x)

\* C39: where the storage engine raises an error on every write, a setter call
\* and a sync of a persisted hook leave the hook mounted (no fault reaches the
\* caller), the hook shows the value it was set to, and the value is published
\* to the store: with cross-component notification every mounted hook of the key
\* in the tab that asked for it shows the value, and the store holds it where
\* the store keeps entries.
C39_WriteErrorIsContained ==
    [][\A b \in {"A", "B"} : \A x \in {"a", "b"} :
         LET c == CtxOf(b)
             o == bind[b].o
         IN (loc[c].full /\ HasStorage(World, c, o)) =>
              /\ (hist'.last.b = b /\ hist'.last.act \in {"Set", "Fire"})
                    => bind'[b].phase = "live" /\ lstore' = lstore /\ sstore' = sstore
              /\ ShowStep(b, x) => bind'[b].val = x
              /\ (PublishStep(b, x) /\ o.notify \in CC) =>
                    /\ \A b2 \in Bindings :
                         ( /\ CtxOf(b2) = c /\ bind[b2].phase = "live"
                           /\ bind[b2].o.notify \in CC /\ bind[b2].o.key = o.key )
                         => bind'[b2].val = x
                    /\ variant # "p0" => MapGet(store'[c], o.key) = x]_vars

\* with full storage, the undebounced hook A has been set to "a" with
\* cross-component notification and the mounted hook B shows "a"
C39_Witness ==
    /\ loc["X"].full
    /\ hist.last = Step("Set", "A", "a")
    /\ bind["A"].o.debounce = 0 /\ bind["A"].o.notify \in CC
    /\ bind["A"].val = "a"
    /\ bind["B"].phase = "live" /\ bind["B"].o.notify \in CC /\ bind["B"].val = "a"
    /\ lstore = EmptyMap

(***************************************************************************)
(* Slots: hook A of the key "k" and hook B of the key "k" or "x1:k" in tab *)
(* X at ?appId=x1, each with the query-parameter scope 'appId' or with no  *)
(* scope, persisted to localStorage.                                       *)
(***************************************************************************)
SlotOptions(b) ==
    {[NoOptions EXCEPT !.key = k, !.initial = i, !.persist = "local", !.scopeByUrlParam = q] :
        k \in IF b = "B" THEN {"k", "x1:k"} ELSE {"k"},
        i \in IF b = "B" THEN {"j"} ELSE {"i"},
        q \in {NoStr, <<"appId">>}}

NextSlots ==
    \/ \E b \in {"A", "B"} : \E o \in SlotOptions(b) : Acquire(b, o)
    \/ \E b \in Bindings : Mount(b)
    \/ \E b \in Bindings, x \in {"a", "b"} : Set(b, x)

SpecSlots == Init /\ [][NextSlots]_vars

\* the scope getScopedStorageKey resolves for options o at the URL l: what
\* follows 'advancedState:' (js), the value of `scope`, '' for none (p0, jsx)
ResolvedScope(v, l, o) ==
    IF v = "js"
      THEN LET skey == getScopedStorageKey(v, l, o) IN SubSeq(skey, 3, Len(skey))
      ELSE IF ~Falsy(o.scopeByUrlParam)
             THEN OrElse(getUrlParam(v, l, o.scopeByUrlParam[1]), <<"default-param">>)
             ELSE IF ~Falsy(o.scopeByUrlPath)
                    THEN OrElse(parsePathScope(v, l, o.scopeByUrlPath), <<"default-path">>)
                    ELSE <<>>

\* where the value of hook b is stored: the storage item, and in js the
\* property of the item's object
SlotOf(b) ==
    IF variant = "js" THEN <<bind[b].skey, KeyText(bind[b].o.key)>> ELSE <<bind[b].skey>>

\* C40: two hooks of a tab whose scope or whose key differ store their values in
\* different slots, also where a key holds ':'.
C40_SlotsAreDistinct ==
    \A b1, b2 \in {"A", "B"} :
        ( /\ bind[b1].phase # "free" /\ bind[b2].phase # "free"
          /\ \/ ResolvedScope(variant, loc["X"], bind[b1].o)
                  # ResolvedScope(variant, loc["X"], bind[b2].o)
             \/ bind[b1].o.key # bind[b2].o.key )
        => SlotOf(b1) # SlotOf(b2)

====
